---- MODULE Spec2Model ----
(***************************************************************************)
(* Model of the signal aggregator (app/strategies/aggregator.py), of the   *)
(* strategy runner (app/strategies/strategies.py), of the backtester       *)
(* (app/services/backtester.py: trade simulator, candle aggregation,       *)
(* month cache, run loop, concurrent runs) and of the saving and loading   *)
(* of a backtest result (app/handlers/backtest.py).                        *)
(*                                                                         *)
(* Units.  Confidences are percentage points.  A weighted average is the   *)
(* exact quotient of two integers and is kept as a record [num, den] with  *)
(* den > 0 (the code uses IEEE doubles; rounding of the last bit is not    *)
(* modelled).  Weight factors are fixed-point: base weight, performance    *)
(* weight, stability multiplier and correlation penalty in tenths, the     *)
(* regime multiplier in hundredths, so that a product of the five is in    *)
(* millionths.  Prices are in tenths of a price unit, ATR multipliers in   *)
(* tenths.  An optional value (Python None) is <<>>, a set one is <<v>>.   *)
(***************************************************************************)
EXTENDS Integers, Sequences, FiniteSets, TLC

VARIABLES
    pc,         \* position of the modelled call
    data,       \* env: [len, close, adx, atr] of the candle window
    cfg,        \* SignalAggregator constructor arguments
    outcomes,   \* env: what each strategy class does when constructed and run
    results,    \* list[StrategyResult]
    signal,     \* AggregatedSignal returned, or the exception marker
    wt,         \* the five weight factors and the actual weights made of them
    sim,        \* arguments of simulate_trade
    trade,      \* TradeResult returned by simulate_trade
    ac,         \* arguments of aggregate_candles
    aggregated, \* list returned by aggregate_candles
    stats,      \* stats dict given to _calculate_performance_weight
    suggested_weight, \* weight it returns
    now,        \* env: the clock, in ms
    cache,      \* env: the month cache files
    cache0,     \* the month cache files before the call
    fetch,      \* fetch_data_by_chunks: arguments, locals and result
    requested,  \* months for which a network request was issued
    written,    \* months whose cache file was written
    progress_callback, \* env: no callback, one that returns, one that raises
    feed,       \* env: what the exchange holds for the requested range
    signal_timeframe, \* Backtester.signal_timeframe
    self_execution_candles, \* Backtester.execution_candles
    self_signal_candles, \* Backtester.signal_candles
    run,        \* locals of Backtester.run
    summary,    \* BacktestSummary of Backtester.run
    verdicts,   \* env: what the strategies make of signal_candles[:i + 1]
    tasks,      \* concurrent runs: each run's position in fetch_data_by_chunks
    month_files,\* env: the month cache files, by symbol and month
    report,     \* the trades and strategy performance of a finished backtest
    stored,     \* the BacktestResult row, its two JSON columns
    loaded,     \* the summary rebuilt from the row
    strategy_store, \* env: the active rows of the strategies table, or a failing session
    strategy_configs \* Backtester.strategy_configs

aggVars == <<data, cfg, outcomes, results, signal>>
tradeVars == <<sim, trade>>
candleVars == <<ac, aggregated>>
perfVars == <<stats, suggested_weight>>
fetchVars == <<now, cache, cache0, fetch, requested, written, progress_callback>>
runVars == <<feed, signal_timeframe, self_execution_candles, self_signal_candles, run, summary, verdicts>>
taskVars == <<tasks, month_files>>
storeVars == <<report, stored, loaded>>
configVars == <<strategy_store, strategy_configs>>
vars == <<pc, aggVars, wt, tradeVars, candleVars, perfVars, fetchVars, runVars, taskVars, storeVars, configVars>>

(***************************************************************************)
(* Bounds of the model.                                                    *)
(***************************************************************************)
MaxStrategies == 4

(***************************************************************************)
(* Small helpers for exact arithmetic.                                     *)
(***************************************************************************)
Max(a, b) == IF a >= b THEN a ELSE b
Min(a, b) == IF a <= b THEN a ELSE b

\* math.ceil(a / b) for a >= 0, b > 0
Ceil(a, b) == (a + b - 1) \div b

None == <<>>
Some(v) == <<v>>

\* A quotient num/den, den > 0.
Rat(n, d) == [num |-> n, den |-> d]

\* Sign of a/b - c/d for a, c >= 0 and b, d > 0, computed without forming
\* the cross products (which do not fit the model checker's integers).
RECURSIVE RatCmp(_, _, _, _)
RatCmp(a, b, c, d) ==
    LET qa == a \div b
        qc == c \div d
        ra == a % b
        rc == c % d
    IN  IF qa # qc THEN (IF qa < qc THEN -1 ELSE 1)
        ELSE IF ra = 0 /\ rc = 0 THEN 0
        ELSE IF ra = 0 THEN -1
        ELSE IF rc = 0 THEN 1
        ELSE RatCmp(d, rc, b, ra)

RatLess(x, y) == RatCmp(x.num, x.den, y.num, y.den) = -1
RatEq(x, y) == RatCmp(x.num, x.den, y.num, y.den) = 0
RatMax(x, y) == IF RatLess(x, y) THEN y ELSE x
\* x >= k for an integer k >= 0
RatGeInt(x, k) == x.num >= k * x.den
RatEqInt(x, k) == x.num = k * x.den

(***************************************************************************)
(* Program constants of aggregator.py.                                     *)
(***************************************************************************)
MIN_VOTE_CONFIDENCE_DEFAULT == 30
MIN_VOTE_RATIO_DEFAULT == 66          \* 0.66, in hundredths
ADX_TREND_THRESHOLD == 25
ADX_RANGE_THRESHOLD == 20
TREND_STRATEGY_NAMES ==
    {"TrendFollowStrategy", "MACDCrossoverStrategy",
     "SMACrossoverStrategy", "WilliamsFractalsStrategy"}
RANGE_STRATEGY_NAMES ==
    {"BollingerBandSqueezeStrategy", "StochasticOscillatorStrategy"}
TREND_BOOST == 115                    \* hundredths
TREND_DAMPEN == 60
RANGE_BOOST == 110
RANGE_DAMPEN == 50
MIN_ACTUAL_WEIGHT == 100000           \* 0.1, in millionths
MAX_ACTUAL_WEIGHT == 3000000          \* 3.0, in millionths
MIN_AVG_CONFIDENCE == 35
VOTE_BONUS == 5
MAX_CONSENSUS == 95
ATR_WINDOW == 14
DEFAULT_THRESHOLD == 60
DEFAULT_STOP_MULTIPLIER == 15         \* 1.5, in tenths
DEFAULT_TP_MULTIPLIERS == <<15, 30, 45>>

(***************************************************************************)
(* The strategy classes, in the order of STRATEGY_CLASS_MAP, and the class *)
(* attribute `weight` of each (tenths).                                    *)
(***************************************************************************)
STRATEGY_CLASS_MAP ==
    <<"TrendFollowStrategy", "MACDCrossoverStrategy",
      "BollingerBandSqueezeStrategy", "StochasticOscillatorStrategy",
      "SMACrossoverStrategy", "WilliamsFractalsStrategy">>

ClassWeight(name) ==
    CASE name = "TrendFollowStrategy" -> 12
      [] name = "MACDCrossoverStrategy" -> 10
      [] name = "BollingerBandSqueezeStrategy" -> 8
      [] name = "StochasticOscillatorStrategy" -> 9
      [] name = "SMACrossoverStrategy" -> 11
      [] name = "WilliamsFractalsStrategy" -> 9
      [] OTHER -> 10

Directions == {"LONG", "SHORT", "NEUTRAL"}

StrategyResult(d, c, w, n) ==
    [direction |-> d, confidence |-> c, weight |-> w, name |-> n]

\* dict.get(key, default)
DictGet(d, k, default) == IF k \in DOMAIN d THEN d[k] ELSE default

EmptyDict == [k \in {} |-> 10]

(***************************************************************************)
(* SignalAggregator._get_adx / _get_regime_multiplier                      *)
(***************************************************************************)
GetAdx(dat) == IF dat.len < ATR_WINDOW THEN 0 ELSE dat.adx

GetRegimeMultiplier(adx, strategy_name) ==
    IF adx >= ADX_TREND_THRESHOLD
    THEN IF strategy_name \in TREND_STRATEGY_NAMES THEN TREND_BOOST
         ELSE IF strategy_name \in RANGE_STRATEGY_NAMES THEN TREND_DAMPEN
         ELSE 100
    ELSE IF adx <= ADX_RANGE_THRESHOLD
    THEN IF strategy_name \in RANGE_STRATEGY_NAMES THEN RANGE_BOOST
         ELSE IF strategy_name \in TREND_STRATEGY_NAMES THEN RANGE_DAMPEN
         ELSE 100
    ELSE 100

(***************************************************************************)
(* actual_weight of aggregate(): the product of the five factors, clamped. *)
(***************************************************************************)
\* variant: the upper clamp forgotten
ClampWeightNoCeiling(w) == Max(MIN_ACTUAL_WEIGHT, w)

ClampWeight(w) == Max(MIN_ACTUAL_WEIGHT, Min(MAX_ACTUAL_WEIGHT, w))

ActualWeight(weight, perf_weight, regime_mult, stability_mult, corr_penalty) ==
    ClampWeight(weight * perf_weight * regime_mult * stability_mult * corr_penalty)

\* Backtester.run: actual_weight recorded in a StrategyPerformance,
\* max(0.1, min(3.0, product)) in millionths
RecordedActualWeight(base_weight, perf_weight, regime_mult, stability_weight, corr_penalty) ==
    Max(100000, Min(3000000,
        base_weight * perf_weight * regime_mult * stability_weight * corr_penalty))

Weights(b, p, r, st, co, a, rec) ==
    [base |-> b, perf |-> p, regime |-> r, stability |-> st, corr |-> co,
     actual |-> a, recorded |-> rec]

NoWeights == Weights(10, 10, 100, 10, 10, 0, 0)

ResultWeight(result, c, dat) ==
    ActualWeight(result.weight,
                 DictGet(c.strategy_weights, result.name, 10),
                 GetRegimeMultiplier(GetAdx(dat), result.name),
                 DictGet(c.stability_weights, result.name, 10),
                 DictGet(c.correlation_penalties, result.name, 10))

(***************************************************************************)
(* The tally loop of aggregate(): one TallyStep per result.                *)
(***************************************************************************)
TallyZero ==
    [long_votes |-> 0, short_votes |-> 0, neutral_votes |-> 0,
     filtered_votes |-> 0,
     long_confidence_sum |-> 0, short_confidence_sum |-> 0,
     long_weight_sum |-> 0, short_weight_sum |-> 0]

\* variant: a vote below min_vote_confidence is filtered and still counted
TallyStepFilteredCounted(acc, result, c, dat) ==
    LET actual_weight == ResultWeight(result, c, dat)
    IN  IF result.direction = "LONG"
        THEN IF result.confidence >= c.min_vote_confidence
             THEN [acc EXCEPT !.long_votes = @ + 1,
                              !.long_confidence_sum = @ + result.confidence * actual_weight,
                              !.long_weight_sum = @ + actual_weight]
             ELSE [acc EXCEPT !.filtered_votes = @ + 1,
                              !.long_confidence_sum = @ + result.confidence * actual_weight,
                              !.long_weight_sum = @ + actual_weight]
        ELSE IF result.direction = "SHORT"
        THEN IF result.confidence >= c.min_vote_confidence
             THEN [acc EXCEPT !.short_votes = @ + 1,
                              !.short_confidence_sum = @ + result.confidence * actual_weight,
                              !.short_weight_sum = @ + actual_weight]
             ELSE [acc EXCEPT !.filtered_votes = @ + 1,
                              !.short_confidence_sum = @ + result.confidence * actual_weight,
                              !.short_weight_sum = @ + actual_weight]
        ELSE [acc EXCEPT !.neutral_votes = @ + 1]

TallyStep(acc, result, c, dat) ==
    LET actual_weight == ResultWeight(result, c, dat)
    IN  IF result.direction = "LONG"
        THEN IF result.confidence >= c.min_vote_confidence
             THEN [acc EXCEPT !.long_votes = @ + 1,
                              !.long_confidence_sum = @ + result.confidence * actual_weight,
                              !.long_weight_sum = @ + actual_weight]
             ELSE [acc EXCEPT !.filtered_votes = @ + 1]
        ELSE IF result.direction = "SHORT"
        THEN IF result.confidence >= c.min_vote_confidence
             THEN [acc EXCEPT !.short_votes = @ + 1,
                              !.short_confidence_sum = @ + result.confidence * actual_weight,
                              !.short_weight_sum = @ + actual_weight]
             ELSE [acc EXCEPT !.filtered_votes = @ + 1]
        ELSE [acc EXCEPT !.neutral_votes = @ + 1]

RECURSIVE TallyFrom(_, _, _, _, _)
TallyFrom(rs, i, acc, c, dat) ==
    IF i > Len(rs) THEN acc
    ELSE TallyFrom(rs, i + 1, TallyStep(acc, rs[i], c, dat), c, dat)

Tally(rs, c, dat) == TallyFrom(rs, 1, TallyZero, c, dat)

AvgConfidence(confidence_sum, weight_sum) ==
    IF weight_sum > 0 THEN Rat(confidence_sum, weight_sum) ELSE Rat(0, 1)

\* variant: the ratio rounded down instead of up
MinVotesFloor(total_strategies, c) ==
    Max(1, (total_strategies * c.min_vote_ratio) \div 100)

\* max(1, ceil(total_strategies * min_vote_ratio))
MinVotes(total_strategies, c) ==
    Max(1, Ceil(total_strategies * c.min_vote_ratio, 100))

\* variant: the +10 per vote of the docstring instead of VOTE_BONUS
VoteBonusTen(votes, min_votes) == Max(0, votes - min_votes) * 10

VoteBonus(votes, min_votes) == Max(0, votes - min_votes) * VOTE_BONUS

\* min(95.0, avg + bonus)
CappedSum(avg, bonus) ==
    IF avg.num >= (MAX_CONSENSUS - bonus) * avg.den
    THEN Rat(MAX_CONSENSUS * avg.den, avg.den)
    ELSE Rat(avg.num + bonus * avg.den, avg.den)

Consensus(votes, min_votes, avg) ==
    IF votes >= min_votes /\ RatGeInt(avg, MIN_AVG_CONFIDENCE)
    THEN CappedSum(avg, VoteBonus(votes, min_votes))
    ELSE avg

\* variant: a tie in votes is enough for LONG
LongWinsOnTie(t, min_votes, consensus_long, c) ==
    /\ t.long_votes >= min_votes
    /\ RatGeInt(consensus_long, c.threshold)
    /\ t.long_votes >= t.short_votes

LongWins(t, min_votes, consensus_long, c) ==
    /\ t.long_votes >= min_votes
    /\ RatGeInt(consensus_long, c.threshold)
    /\ t.long_votes > t.short_votes

\* variant: SHORT without a majority over LONG
ShortWinsNoMajority(t, min_votes, consensus_short, c) ==
    /\ t.short_votes >= min_votes
    /\ RatGeInt(consensus_short, c.threshold)

ShortWins(t, min_votes, consensus_short, c) ==
    /\ t.short_votes >= min_votes
    /\ RatGeInt(consensus_short, c.threshold)
    /\ t.short_votes > t.long_votes

(***************************************************************************)
(* SignalAggregator._calculate_sl_tp                                       *)
(***************************************************************************)
CalculateSlTp(sig, c, atr) ==
    IF sig.direction = "LONG"
    THEN [sig EXCEPT
            !.stop_loss = Some(sig.entry_price - (c.stop_multiplier * atr) \div 10),
            !.take_profit_1 = Some(sig.entry_price + (c.tp_multipliers[1] * atr) \div 10),
            !.take_profit_2 = Some(sig.entry_price + (c.tp_multipliers[2] * atr) \div 10),
            !.take_profit_3 = Some(sig.entry_price + (c.tp_multipliers[3] * atr) \div 10)]
    ELSE IF sig.direction = "SHORT"
    THEN [sig EXCEPT
            !.stop_loss = Some(sig.entry_price + (c.stop_multiplier * atr) \div 10),
            !.take_profit_1 = Some(sig.entry_price - (c.tp_multipliers[1] * atr) \div 10),
            !.take_profit_2 = Some(sig.entry_price - (c.tp_multipliers[2] * atr) \div 10),
            !.take_profit_3 = Some(sig.entry_price - (c.tp_multipliers[3] * atr) \div 10)]
    ELSE sig

(***************************************************************************)
(* SignalAggregator.aggregate.  The result carries the AggregatedSignal    *)
(* fields and `raised`, TRUE when an exception leaves the call instead.    *)
(***************************************************************************)
AggregatedSignal(dir, conf, entry, rs, t, avg_long, avg_short) ==
    [raised |-> FALSE,
     direction |-> dir, confidence |-> conf, entry_price |-> entry,
     stop_loss |-> None, take_profit_1 |-> None,
     take_profit_2 |-> None, take_profit_3 |-> None,
     strategy_results |-> rs,
     long_votes |-> t.long_votes, short_votes |-> t.short_votes,
     neutral_votes |-> t.neutral_votes, filtered_votes |-> t.filtered_votes,
     long_weight_sum |-> t.long_weight_sum,
     short_weight_sum |-> t.short_weight_sum,
     weighted_long_confidence |-> avg_long,
     weighted_short_confidence |-> avg_short]

NoSignal ==
    [AggregatedSignal("NEUTRAL", Rat(0, 1), 0, <<>>, TallyZero, Rat(0, 1), Rat(0, 1))
        EXCEPT !.direction = "NONE"]

Raised == [NoSignal EXCEPT !.raised = TRUE]

Aggregate(rs, c, dat) ==
    LET t == Tally(rs, c, dat)
        avg_long_confidence == AvgConfidence(t.long_confidence_sum, t.long_weight_sum)
        avg_short_confidence == AvgConfidence(t.short_confidence_sum, t.short_weight_sum)
        total_strategies == Len(rs)
        min_votes == MinVotes(total_strategies, c)
        consensus_long == Consensus(t.long_votes, min_votes, avg_long_confidence)
        consensus_short == Consensus(t.short_votes, min_votes, avg_short_confidence)
        direction ==
            IF LongWins(t, min_votes, consensus_long, c) THEN "LONG"
            ELSE IF ShortWins(t, min_votes, consensus_short, c) THEN "SHORT"
            ELSE "NEUTRAL"
        confidence ==
            IF direction = "LONG" THEN consensus_long
            ELSE IF direction = "SHORT" THEN consensus_short
            ELSE RatMax(consensus_long, consensus_short)
        sig == AggregatedSignal(direction, confidence, dat.close, rs, t,
                                avg_long_confidence, avg_short_confidence)
    IN  IF dat.len = 0
        THEN Raised                       \* df['close'].iloc[-1] on an empty frame
        ELSE IF direction = "NEUTRAL" THEN sig
        ELSE IF dat.atr = None THEN Raised   \* AverageTrueRange raised
        ELSE CalculateSlTp(sig, c, dat.atr[1])

(***************************************************************************)
(* TradeResult and TradeResult.calculate_profit (backtester.py).           *)
(* total_profit_percent is kept multiplied by entry_price, which makes     *)
(* every term (price - entry) * percent an integer: the tranche fractions  *)
(* 0.40 / 0.30 / 0.30 are in percent.  Times are integers (ms).            *)
(***************************************************************************)
TP1_PERCENT == 40
TP2_PERCENT == 30
TP3_PERCENT == 30

\* `value or 0` on an optional number
OrZero(opt) == IF opt = None THEN 0 ELSE opt[1]

\* variant: a trade starts with the stop tier ORIGINAL recorded
TradeResultTierPreset(signal_time, sig) ==
    [signal_time |-> signal_time,
     direction |-> sig.direction,
     confidence |-> sig.confidence,
     entry_price |-> sig.entry_price,
     stop_loss |-> OrZero(sig.stop_loss),
     take_profit_1 |-> OrZero(sig.take_profit_1),
     take_profit_2 |-> OrZero(sig.take_profit_2),
     take_profit_3 |-> OrZero(sig.take_profit_3),
     result |-> "TIMEOUT",
     exit_time |-> None,
     exit_price |-> None,
     tp1_hit |-> FALSE, tp2_hit |-> FALSE, tp3_hit |-> FALSE, sl_hit |-> FALSE,
     sl_hit_at |-> Some("ORIGINAL"),
     total_profit_percent |-> 0]

TradeResult(signal_time, sig) ==
    [signal_time |-> signal_time,
     direction |-> sig.direction,
     confidence |-> sig.confidence,
     entry_price |-> sig.entry_price,
     stop_loss |-> OrZero(sig.stop_loss),
     take_profit_1 |-> OrZero(sig.take_profit_1),
     take_profit_2 |-> OrZero(sig.take_profit_2),
     take_profit_3 |-> OrZero(sig.take_profit_3),
     result |-> "TIMEOUT",
     exit_time |-> None,
     exit_price |-> None,
     tp1_hit |-> FALSE, tp2_hit |-> FALSE, tp3_hit |-> FALSE, sl_hit |-> FALSE,
     sl_hit_at |-> None,
     total_profit_percent |-> 0]

\* signed move from the entry to price p, in the trade's favour
Gain(t, p) ==
    IF t.direction = "LONG" THEN p - t.entry_price ELSE t.entry_price - p

\* variant: the remainder taken of the whole position
RemainingOfWhole(t) == 100

\* position left when the stop is hit, in percent
Remaining(t) ==
    100 - (IF t.tp1_hit THEN TP1_PERCENT ELSE 0)
        - (IF t.tp2_hit THEN TP2_PERCENT ELSE 0)
        - (IF t.tp3_hit THEN TP3_PERCENT ELSE 0)

\* variant: the stop closes only the first tranche's share
RemainderProfitFirstTranche(t) ==
    IF t.sl_hit /\ Remaining(t) > 0
    THEN IF t.sl_hit_at = Some("ORIGINAL") THEN Gain(t, t.stop_loss) * TP1_PERCENT
         ELSE IF t.sl_hit_at = Some("BREAKEVEN") THEN 0
         ELSE IF t.sl_hit_at = Some("TP1") THEN Gain(t, t.take_profit_1) * Remaining(t)
         ELSE 0
    ELSE 0

\* variant: past TP2 the remainder is measured from its previous exit, TP1
RemainderProfitFromTp1(t) ==
    IF t.sl_hit /\ Remaining(t) > 0
    THEN IF t.sl_hit_at = Some("ORIGINAL") THEN Gain(t, t.stop_loss) * Remaining(t)
         ELSE IF t.sl_hit_at = Some("BREAKEVEN") THEN 0
         ELSE IF t.sl_hit_at = Some("TP1")
         THEN (Gain(t, t.take_profit_1) - Gain(t, t.take_profit_1)) * Remaining(t)
         ELSE 0
    ELSE 0

\* the `if self.sl_hit:` block of calculate_profit
RemainderProfit(t) ==
    IF t.sl_hit /\ Remaining(t) > 0
    THEN IF t.sl_hit_at = Some("ORIGINAL") THEN Gain(t, t.stop_loss) * Remaining(t)
         ELSE IF t.sl_hit_at = Some("BREAKEVEN") THEN 0
         ELSE IF t.sl_hit_at = Some("TP1") THEN Gain(t, t.take_profit_1) * Remaining(t)
         ELSE 0
    ELSE 0

\* variant: the first tranche counted as the whole position
CalculateProfitWholeAtTp1(t) ==
    (IF t.tp1_hit THEN Gain(t, t.take_profit_1) * 100 ELSE 0)
    + (IF t.tp2_hit THEN Gain(t, t.take_profit_2) * TP2_PERCENT ELSE 0)
    + (IF t.tp3_hit THEN Gain(t, t.take_profit_3) * TP3_PERCENT ELSE 0)
    + RemainderProfit(t)

CalculateProfit(t) ==
    (IF t.tp1_hit THEN Gain(t, t.take_profit_1) * TP1_PERCENT ELSE 0)
    + (IF t.tp2_hit THEN Gain(t, t.take_profit_2) * TP2_PERCENT ELSE 0)
    + (IF t.tp3_hit THEN Gain(t, t.take_profit_3) * TP3_PERCENT ELSE 0)
    + RemainderProfit(t)

(***************************************************************************)
(* Backtester.simulate_trade.  A candle is [open_time, high, low, close,   *)
(* close_time].  The loop state is the trade, the stop in force, its tier  *)
(* and whether the loop has been left by `break`.                          *)
(***************************************************************************)
Candle(open_time, low, high, close, close_time) ==
    [open_time |-> open_time, high |-> high, low |-> low, close |-> close,
     close_time |-> close_time]

\* variant: the horizon is cut from the whole execution list, the candles at
\* and before the signal included
FutureCandlesUnfiltered(execution_candles, signal_time, max_candles) ==
    SubSeq(execution_candles, 1, Min(Len(execution_candles), max_candles))

\* [c for c in execution_candles if c[0] > signal_time][:max_candles]
FutureCandles(execution_candles, signal_time, max_candles) ==
    LET later == SelectSeq(execution_candles, LAMBDA c : c.open_time > signal_time)
    IN  SubSeq(later, 1, Min(Len(later), max_candles))

\* the stop is reached by the candle
StopBreached(t, candle, current_sl) ==
    IF t.direction = "LONG" THEN candle.low <= current_sl
    ELSE candle.high >= current_sl

\* a target is reached by the candle
TargetReached(t, candle, target) ==
    IF t.direction = "LONG" THEN candle.high >= target
    ELSE candle.low <= target

LoopState(t, current_sl, current_sl_type, broke) ==
    [trade |-> t, current_sl |-> current_sl, current_sl_type |-> current_sl_type,
     broke |-> broke]

\* variant: the targets are tested first and the stop, as they leave it,
\* on the same candle
CandleStepTargetsFirst(st, candle) ==
    LET t == st.trade
        hit1 == ~t.tp1_hit /\ TargetReached(t, candle, t.take_profit_1)
        t1 == IF hit1 THEN [t EXCEPT !.tp1_hit = TRUE] ELSE t
        sl1 == IF hit1 THEN t.entry_price ELSE st.current_sl
        ty1 == IF hit1 THEN "BREAKEVEN" ELSE st.current_sl_type
        hit2 == t1.tp1_hit /\ ~t1.tp2_hit
                /\ TargetReached(t, candle, t.take_profit_2)
        t2 == IF hit2 THEN [t1 EXCEPT !.tp2_hit = TRUE] ELSE t1
        sl2 == IF hit2 THEN t.take_profit_1 ELSE sl1
        ty2 == IF hit2 THEN "TP1" ELSE ty1
        hit3 == t2.tp2_hit /\ ~t2.tp3_hit
                /\ TargetReached(t, candle, t.take_profit_3)
    IN  IF hit3
        THEN LoopState([t2 EXCEPT !.tp3_hit = TRUE,
                                  !.exit_time = Some(candle.close_time),
                                  !.exit_price = Some(t.take_profit_3),
                                  !.result = "TP3"],
                       sl2, ty2, TRUE)
        ELSE IF StopBreached(t, candle, sl2)
        THEN LoopState([t2 EXCEPT !.sl_hit = TRUE,
                                  !.sl_hit_at = Some(ty2),
                                  !.exit_time = Some(candle.close_time),
                                  !.exit_price = Some(sl2),
                                  !.result = IF ~t2.tp1_hit THEN "SL" ELSE "PARTIAL"],
                       sl2, ty2, TRUE)
        ELSE LoopState(t2, sl2, ty2, FALSE)

\* the body of `for candle in future_candles`
CandleStep(st, candle) ==
    LET t == st.trade
    IN  IF StopBreached(t, candle, st.current_sl)
        THEN LoopState([t EXCEPT !.sl_hit = TRUE,
                                 !.sl_hit_at = Some(st.current_sl_type),
                                 !.exit_time = Some(candle.close_time),
                                 !.exit_price = Some(st.current_sl),
                                 !.result = IF ~t.tp1_hit THEN "SL" ELSE "PARTIAL"],
                       st.current_sl, st.current_sl_type, TRUE)
        ELSE
        LET hit1 == ~t.tp1_hit /\ TargetReached(t, candle, t.take_profit_1)
            t1 == IF hit1 THEN [t EXCEPT !.tp1_hit = TRUE] ELSE t
            sl1 == IF hit1 THEN t.entry_price ELSE st.current_sl
            ty1 == IF hit1 THEN "BREAKEVEN" ELSE st.current_sl_type
            hit2 == t1.tp1_hit /\ ~t1.tp2_hit
                    /\ TargetReached(t, candle, t.take_profit_2)
            t2 == IF hit2 THEN [t1 EXCEPT !.tp2_hit = TRUE] ELSE t1
            sl2 == IF hit2 THEN t.take_profit_1 ELSE sl1
            ty2 == IF hit2 THEN "TP1" ELSE ty1
            hit3 == t2.tp2_hit /\ ~t2.tp3_hit
                    /\ TargetReached(t, candle, t.take_profit_3)
            t3 == IF hit3
                  THEN [t2 EXCEPT !.tp3_hit = TRUE,
                                  !.exit_time = Some(candle.close_time),
                                  !.exit_price = Some(t.take_profit_3),
                                  !.result = "TP3"]
                  ELSE t2
        IN  LoopState(t3, sl2, ty2, hit3)

\* variant: the loop goes on after `break`
RECURSIVE CandleLoopPastBreak(_, _, _)
CandleLoopPastBreak(st, future_candles, i) ==
    IF i > Len(future_candles) THEN st
    ELSE CandleLoopPastBreak(CandleStep(st, future_candles[i]), future_candles, i + 1)

RECURSIVE CandleLoop(_, _, _)
CandleLoop(st, future_candles, i) ==
    IF i > Len(future_candles) \/ st.broke THEN st
    ELSE CandleLoop(CandleStep(st, future_candles[i]), future_candles, i + 1)

\* variant: the profit of a timed-out trade comes from calculate_profit
FinishThroughCalculateProfit(t, future_candles) ==
    LET last_candle == future_candles[Len(future_candles)]
    IN  IF t.result = "TIMEOUT"
        THEN IF t.tp1_hit
             THEN LET p == [t EXCEPT !.result = "PARTIAL",
                                     !.exit_time = Some(last_candle.close_time),
                                     !.exit_price = Some(last_candle.close)]
                  IN  [p EXCEPT !.total_profit_percent = CalculateProfit(p)]
             ELSE LET p == [t EXCEPT !.exit_time = Some(last_candle.close_time),
                                     !.exit_price = Some(last_candle.close)]
                  IN  [p EXCEPT !.total_profit_percent = CalculateProfit(p)]
        ELSE [t EXCEPT !.total_profit_percent = CalculateProfit(t)]

\* what follows the loop: candles exhausted, or the profit of a closed trade
Finish(t, future_candles) ==
    LET last_candle == future_candles[Len(future_candles)]
    IN  IF t.result = "TIMEOUT"
        THEN IF t.tp1_hit
             THEN LET p == [t EXCEPT !.result = "PARTIAL",
                                     !.exit_time = Some(last_candle.close_time),
                                     !.exit_price = Some(last_candle.close)]
                  IN  [p EXCEPT !.total_profit_percent = CalculateProfit(p)]
             ELSE IF ~t.sl_hit /\ ~t.tp1_hit
             THEN [t EXCEPT !.exit_time = Some(last_candle.close_time),
                            !.exit_price = Some(last_candle.close),
                            !.total_profit_percent = Gain(t, last_candle.close) * 100]
             ELSE [t EXCEPT !.total_profit_percent = CalculateProfit(t)]
        ELSE [t EXCEPT !.total_profit_percent = CalculateProfit(t)]

SimulateTrade(sig, signal_time, execution_candles, max_candles) ==
    LET t0 == TradeResult(signal_time, sig)
        future_candles == FutureCandles(execution_candles, signal_time, max_candles)
    IN  IF Len(future_candles) = 0 THEN t0
        ELSE Finish(CandleLoop(LoopState(t0, t0.stop_loss, "ORIGINAL", FALSE),
                               future_candles, 1).trade,
                    future_candles)

\* the arguments of one simulate_trade call
Sim(sig, signal_time, execution_candles, max_candles) ==
    [signal |-> sig, signal_time |-> signal_time,
     execution_candles |-> execution_candles, max_candles |-> max_candles]

NoSim == Sim(NoSignal, 0, <<>>, 0)
NoTrade == TradeResult(0, NoSignal)

(***************************************************************************)
(* BaseStrategy.run and SignalAggregator.run_all_strategies.  An outcome   *)
(* says what constructing and running one strategy class does: it raises,  *)
(* or get_confidence() yields a direction and a raw confidence.            *)
(***************************************************************************)
Outcome(raises, d, raw) == [raises |-> raises, direction |-> d, confidence |-> raw]

\* variant: only the upper clamp
ClampConfidenceUpper(raw) == Min(95, raw)

\* result.confidence = max(5.0, min(95.0, result.confidence))
ClampConfidence(raw) == Max(5, Min(95, raw))

BaseStrategyRun(name, o) ==
    StrategyResult(o.direction, ClampConfidence(o.confidence), ClassWeight(name), name)

ErrorResult(name) == StrategyResult("NEUTRAL", 0, 0, name)

RunStrategy(name, o) ==
    IF o.raises THEN ErrorResult(name) ELSE BaseStrategyRun(name, o)

\* variant: the first exception ends the loop
RunAllStrategiesStopAtError(strategies, os) ==
    LET failing == {i \in 1..Len(strategies) : os[i].raises}
        last == IF failing = {} THEN Len(strategies)
                ELSE CHOOSE i \in failing : \A j \in failing : i <= j
    IN  [i \in 1..last |-> RunStrategy(strategies[i], os[i])]

RunAllStrategies(strategies, os) ==
    [i \in 1..Len(strategies) |-> RunStrategy(strategies[i], os[i])]

(***************************************************************************)
(* Inputs.                                                                 *)
(***************************************************************************)
RawConfidences == {0, 32, 80, 120}

OutcomeChoices ==
    {Outcome(TRUE, "NEUTRAL", 0), Outcome(FALSE, "NEUTRAL", 0)}
    \cup {Outcome(FALSE, d, raw) : d \in {"LONG", "SHORT"}, raw \in RawConfidences}

\* the first n registered strategy classes
Strategies(n) == SubSeq(STRATEGY_CLASS_MAP, 1, n)

Counts == 0..Min(MaxStrategies, Len(STRATEGY_CLASS_MAP))

ClosePrices == {1000}
AdxValues == {10, 30}
AtrValues == {20}

Cfg(threshold, ratio, perf) ==
    [threshold |-> threshold,
     stop_multiplier |-> DEFAULT_STOP_MULTIPLIER,
     tp_multipliers |-> DEFAULT_TP_MULTIPLIERS,
     min_vote_confidence |-> Max(0, Min(100, MIN_VOTE_CONFIDENCE_DEFAULT)),
     min_vote_ratio |-> Max(0, Min(100, ratio)),
     strategy_weights |-> perf,
     stability_weights |-> EmptyDict,
     correlation_penalties |-> EmptyDict]

Thresholds == {30, 55}
MinVoteRatios == {50, MIN_VOTE_RATIO_DEFAULT}
\* strategy_weights as the backtester passes them (cfg.performance_weight)
PerfWeights ==
    [n \in {"TrendFollowStrategy", "BollingerBandSqueezeStrategy"} |->
        IF n = "TrendFollowStrategy" THEN 25 ELSE 1]

NoData == [len |-> 0, close |-> 0, adx |-> 0, atr |-> None]
IdleCfg == Cfg(DEFAULT_THRESHOLD, MIN_VOTE_RATIO_DEFAULT, EmptyDict)

(***************************************************************************)
(* Backtester.aggregate_candles.  A kline is the Binance row: open_time,   *)
(* open, high, low, close, volume, close_time, quote_volume, trades,       *)
(* taker_buy_base, taker_buy_quote, ignore.  Times are in ms.              *)
(***************************************************************************)
TIMEFRAME_MINUTES ==
    [tf \in {"1m", "3m", "5m", "15m", "30m", "1h", "2h", "4h", "6h", "8h", "12h", "1d"} |->
        CASE tf = "1m" -> 1 [] tf = "3m" -> 3 [] tf = "5m" -> 5 [] tf = "15m" -> 15
          [] tf = "30m" -> 30 [] tf = "1h" -> 60 [] tf = "2h" -> 120 [] tf = "4h" -> 240
          [] tf = "6h" -> 360 [] tf = "8h" -> 480 [] tf = "12h" -> 720 [] tf = "1d" -> 1440]

\* get_smallest_execution_tf: always the one-minute timeframe
GetSmallestExecutionTf(signal_tf) == "1m"

Kline(open_time, open, high, low, close, volume, close_time, quote_volume,
      trades, taker_buy_base, taker_buy_quote) ==
    [open_time |-> open_time, open |-> open, high |-> high, low |-> low,
     close |-> close, volume |-> volume, close_time |-> close_time,
     quote_volume |-> quote_volume, trades |-> trades,
     taker_buy_base |-> taker_buy_base, taker_buy_quote |-> taker_buy_quote,
     ignore |-> 0]

RECURSIVE SeqSum(_)
SeqSum(s) == IF s = <<>> THEN 0 ELSE Head(s) + SeqSum(Tail(s))

SeqMax(s) == CHOOSE x \in {s[i] : i \in 1..Len(s)} : \A j \in 1..Len(s) : s[j] <= x
SeqMin(s) == CHOOSE x \in {s[i] : i \in 1..Len(s)} : \A j \in 1..Len(s) : s[j] >= x

Column(chunk, f) == [i \in 1..Len(chunk) |-> chunk[i][f]]

\* the candle appended for one complete chunk
MergeChunk(chunk) ==
    [open_time |-> chunk[1].open_time,
     open |-> chunk[1].open,
     high |-> SeqMax(Column(chunk, "high")),
     low |-> SeqMin(Column(chunk, "low")),
     close |-> chunk[Len(chunk)].close,
     volume |-> SeqSum(Column(chunk, "volume")),
     close_time |-> chunk[Len(chunk)].close_time,
     quote_volume |-> SeqSum(Column(chunk, "quote_volume")),
     trades |-> SeqSum(Column(chunk, "trades")),
     taker_buy_base |-> SeqSum(Column(chunk, "taker_buy_base")),
     taker_buy_quote |-> SeqSum(Column(chunk, "taker_buy_quote")),
     ignore |-> chunk[Len(chunk)].ignore]

\* variant: an incomplete trailing chunk is merged too
KeepEveryChunk(chunk, ratio) == TRUE

\* `if len(chunk) < ratio: continue` negated
ChunkComplete(chunk, ratio) == ~(Len(chunk) < ratio)

\* for i in range(0, len(candles_small), ratio): the chunks
\* candles_small[i:i + ratio] in order, the incomplete ones skipped, the
\* others merged
AggregateLoop(candles_small, ratio) ==
    LET chunks == [c \in 1..Ceil(Len(candles_small), ratio) |->
                      SubSeq(candles_small, (c - 1) * ratio + 1,
                             Min(c * ratio, Len(candles_small)))]
        kept == SelectSeq(chunks, LAMBDA chunk : ChunkComplete(chunk, ratio))
    IN  [c \in 1..Len(kept) |-> MergeChunk(kept[c])]

AggregateCandles(candles_small, target_tf, execution_timeframe) ==
    IF Len(candles_small) = 0 THEN <<>>
    ELSE LET source_minutes == TIMEFRAME_MINUTES[execution_timeframe]
             target_minutes == TIMEFRAME_MINUTES[target_tf]
             ratio == target_minutes \div source_minutes
         IN  IF ratio <= 1 THEN candles_small
             ELSE AggregateLoop(candles_small, ratio)

AggregateCandlesArgs(candles_small, target_tf) ==
    [candles_small |-> candles_small, target_tf |-> target_tf]

NoAggregateCandlesArgs == AggregateCandlesArgs(<<>>, "1m")

(***************************************************************************)
(* Backtester._calculate_performance_weight.  profit_factor is in          *)
(* hundredths, win_rate in percent, weights in millionths; the returned    *)
(* weight, rounded to four decimals, is in ten-thousandths.                *)
(***************************************************************************)
RECURSIVE ISqrtBetween(_, _, _)
ISqrtBetween(n, lo, hi) ==
    IF lo >= hi THEN lo
    ELSE LET mid == (lo + hi + 1) \div 2
         IN  IF mid * mid <= n THEN ISqrtBetween(n, mid, hi)
             ELSE ISqrtBetween(n, lo, mid - 1)

\* integer square root, n < 2^30
ISqrt(n) == ISqrtBetween(n, 0, 32767)

\* (pf / 1.1) * ((win_rate / 55.0) ** 0.5), the root taken to four decimals
PerformanceRaw(pf, win_rate) ==
    IF pf > 0 /\ win_rate > 0
    THEN (pf * ISqrt(win_rate * 1818182) * 10) \div 11
    ELSE 300000

\* max(0.3, min(2.5, raw))
ClampPerformance(raw) == Max(300000, Min(2500000, raw))

\* variant: alpha = total_signals / 30 without the cap
ShrinkStepsUncapped(total_signals) == IF total_signals > 0 THEN total_signals ELSE 0

\* alpha = min(1.0, total_signals / 30) if total_signals > 0 else 0.0, times 30
ShrinkSteps(total_signals) == IF total_signals > 0 THEN Min(30, total_signals) ELSE 0

\* num / den rounded to the nearest integer, ties to even (num, den > 0)
RoundHalfEven(num, den) ==
    LET q == num \div den
        r == num % den
    IN  IF 2 * r < den THEN q
        ELSE IF 2 * r > den THEN q + 1
        ELSE IF q % 2 = 0 THEN q ELSE q + 1

Stats(total_signals, profit_factor, win_rate) ==
    [total_signals |-> total_signals, profit_factor |-> profit_factor,
     win_rate |-> win_rate]

NoStats == Stats(0, 0, 0)

CalculatePerformanceWeight(st) ==
    LET raw == PerformanceRaw(st.profit_factor, st.win_rate)
        weight == ClampPerformance(raw)
        \* 30 * final_weight, in millionths
        final_weight30 == 30 * 1000000 + ShrinkSteps(st.total_signals) * (weight - 1000000)
    IN  RoundHalfEven(final_weight30, 3000)

(***************************************************************************)
(* Backtester.fetch_data_by_chunks and _fetch_range_by_chunks.  A kline is *)
(* represented by its open time.  Time is scaled: klines open at the even  *)
(* times, a month holds CandlesPerMonth klines and ends one unit before    *)
(* the next begins (`next_month - 1` ms); a request returns at most        *)
(* ChunkLimit klines (limit=1000).  Months are numbered from 1; the        *)
(* exchange lists klines from time 2 on.                                   *)
(***************************************************************************)
CandlesPerMonth == 3
ChunkLimit == 2
MAX_REQUESTS == 100

\* _month_bounds
MonthStart(m) == 2 * m * CandlesPerMonth
MonthEnd(m) == 2 * (m + 1) * CandlesPerMonth - 1

\* the month a time falls in (_month_key of a datetime)
MonthOf(t) == t \div (2 * CandlesPerMonth)

\* _iter_months
IterMonths(start_time, end_time) ==
    [k \in 1..(MonthOf(end_time) - MonthOf(start_time) + 1) |-> MonthOf(start_time) + k - 1]

\* the times of S in ascending order
SortedSeq(S) ==
    [i \in 1..Cardinality(S) |-> CHOOSE x \in S : Cardinality({y \in S : y < x}) = i - 1]

\* sorted({c[0]: c for c in all_candles}.values(), key=lambda x: x[0])
UniqueSorted(all_candles) == SortedSeq({all_candles[i] : i \in 1..Len(all_candles)})

\* [c for c in candles if start_time <= c[0] <= end_time]
InRange(candles, start_time, end_time) ==
    SelectSeq(candles, LAMBDA t : start_time <= t /\ t <= end_time)

\* the klines the exchange returns for endTime = current_end, limit = ChunkLimit
\* (klines open at the even times 2, 4, ... up to the clock)
Klines(current_end, clock) ==
    LET newest == 2 * (Min(current_end, clock) \div 2)
        n == Min(ChunkLimit, newest \div 2)
    IN  [i \in 1..n |-> newest - 2 * (n - i)]

CacheFile(exists, readable, rows) ==
    [exists |-> exists, readable |-> readable, rows |-> rows]

\* variant: the cache serves a month that is not closed yet
CachedCandlesWithoutRefresh(file, should_refresh) ==
    IF file.exists
    THEN IF file.readable THEN file.rows ELSE <<>>
    ELSE <<>>

\* cache_path.exists() and not should_refresh, _load_month_from_cache or []
CachedCandles(file, should_refresh) ==
    IF file.exists /\ ~should_refresh
    THEN IF file.readable THEN file.rows ELSE <<>>
    ELSE <<>>

Fetch(start_time, end_time) ==
    [start_time |-> start_time, end_time |-> end_time,
     months |-> IterMonths(start_time, end_time),
     k |-> 1,                    \* position in `for month_dt in months`
     all_candles |-> <<>>,
     range_candles |-> <<>>,     \* all_candles of _fetch_range_by_chunks
     current_end |-> 0,
     request_count |-> 0,
     \* what _fetch_range_by_chunks returned for each month it was called for
     obtained |-> [m \in MonthOf(start_time)..MonthOf(end_time) |-> <<>>],
     result |-> <<>>]

NoFetch == Fetch(0, 0)

\* the end of one iteration of `for month_dt in months`, and the return
MonthDone(f, candles) ==
    LET all == f.all_candles \o InRange(candles, f.start_time, f.end_time)
    IN  IF f.k = Len(f.months)
        THEN [f EXCEPT !.all_candles = all, !.k = f.k + 1, !.result = UniqueSorted(all)]
        ELSE [f EXCEPT !.all_candles = all, !.k = f.k + 1]

(***************************************************************************)
(* Backtester.run: the walk-forward scan.  Indices of signal candles are   *)
(* counted from 0 as in the code, so signal_candles[i] of the code is      *)
(* signal_candles[i + 1] here.  A datetime is the instant it denotes, in   *)
(* ms.                                                                     *)
(***************************************************************************)
MIN_SIGNAL_CANDLES == 100
START_INDEX == 100
PROGRESS_EVERY == 20
TRADE_HORIZON == 24
CLOSE_SEARCH == 30
CLOSE_FALLBACK == 25

\* StrategyConfig.code of a strategy class (strategy_registry.STRATEGY_CLASS_MAP)
StrategyCode(name) ==
    CASE name = "TrendFollowStrategy" -> "trendfollowstrategy"
      [] name = "MACDCrossoverStrategy" -> "macdcrossoverstrategy"
      [] name = "BollingerBandSqueezeStrategy" -> "bollingerbandsqueezestrategy"
      [] name = "StochasticOscillatorStrategy" -> "stochasticoscillatorstrategy"
      [] name = "SMACrossoverStrategy" -> "smacrossoverstrategy"
      [] name = "WilliamsFractalsStrategy" -> "williamsfractalsstrategy"

\* the classes of self.strategy_configs after _load_strategy_configs: two
\* active strategies, performance_weight 1.0
RunStrategies == Strategies(2)

RunCodes == {StrategyCode(RunStrategies[k]) : k \in 1..Len(RunStrategies)}

\* self.strategy_code_map
StrategyCodeMap ==
    [name \in {RunStrategies[k] : k \in 1..Len(RunStrategies)} |-> StrategyCode(name)]

\* the arguments generate_signal gives to SignalAggregator
RunCfg ==
    Cfg(DEFAULT_THRESHOLD, MIN_VOTE_RATIO_DEFAULT,
        [name \in {RunStrategies[k] : k \in 1..Len(RunStrategies)} |-> 10])

\* BacktestSummary as run constructs it (the counters and the lists)
Summary(trades) ==
    [total_signals |-> 0, long_signals |-> 0, short_signals |-> 0,
     wins |-> 0, losses |-> 0, partial_wins |-> 0, timeouts |-> 0,
     tp1_hits |-> 0, tp2_hits |-> 0, tp3_hits |-> 0,
     total_profit_percent |-> 0,
     trades |-> trades,
     strategy_performance |-> <<>>]

\* sum(1 for t in trades if P(t))
CountTrades(trades, P(_)) == Cardinality({k \in 1..Len(trades) : P(trades[k])})

\* sum(t.total_profit_percent for t in trades)
RECURSIVE TotalProfit(_)
TotalProfit(trades) ==
    IF trades = <<>> THEN 0
    ELSE Head(trades).total_profit_percent + TotalProfit(Tail(trades))

\* variant: a trade that ran out of candles after TP1 is counted as a timeout
CalculateStatisticsExhaustedTimeout(s) ==
    LET trades == s.trades
    IN  IF trades = <<>> THEN s
        ELSE [s EXCEPT
                !.total_signals = Len(trades),
                !.long_signals = CountTrades(trades, LAMBDA t : t.direction = "LONG"),
                !.short_signals = CountTrades(trades, LAMBDA t : t.direction = "SHORT"),
                !.tp1_hits = CountTrades(trades, LAMBDA t : t.tp1_hit),
                !.tp2_hits = CountTrades(trades, LAMBDA t : t.tp2_hit),
                !.tp3_hits = CountTrades(trades, LAMBDA t : t.tp3_hit),
                !.wins = CountTrades(trades, LAMBDA t : t.tp1_hit /\ ~t.sl_hit),
                !.losses = CountTrades(trades, LAMBDA t : t.sl_hit /\ ~t.tp1_hit),
                !.partial_wins = CountTrades(trades, LAMBDA t : t.tp1_hit /\ t.sl_hit),
                !.timeouts = CountTrades(trades,
                                LAMBDA t : t.result = "TIMEOUT"
                                              \/ (t.result = "PARTIAL" /\ ~t.sl_hit)),
                !.total_profit_percent = TotalProfit(trades)]

\* _calculate_statistics: the counters and the profit sum
CalculateStatistics(s) ==
    LET trades == s.trades
    IN  IF trades = <<>> THEN s
        ELSE [s EXCEPT
                !.total_signals = Len(trades),
                !.long_signals = CountTrades(trades, LAMBDA t : t.direction = "LONG"),
                !.short_signals = CountTrades(trades, LAMBDA t : t.direction = "SHORT"),
                !.tp1_hits = CountTrades(trades, LAMBDA t : t.tp1_hit),
                !.tp2_hits = CountTrades(trades, LAMBDA t : t.tp2_hit),
                !.tp3_hits = CountTrades(trades, LAMBDA t : t.tp3_hit),
                !.wins = CountTrades(trades, LAMBDA t : t.tp1_hit /\ ~t.sl_hit),
                !.losses = CountTrades(trades, LAMBDA t : t.sl_hit /\ ~t.tp1_hit),
                !.partial_wins = CountTrades(trades, LAMBDA t : t.tp1_hit /\ t.sl_hit),
                !.timeouts = CountTrades(trades, LAMBDA t : t.result = "TIMEOUT"),
                !.total_profit_percent = TotalProfit(trades)]

\* _calculate_strategy_stats: the counters and the profit sum
CalculateStrategyStats(trades) ==
    IF trades = <<>>
    THEN [total_signals |-> 0, wins |-> 0, losses |-> 0, partial_wins |-> 0,
          timeouts |-> 0, total_profit_percent |-> 0]
    ELSE [total_signals |-> Len(trades),
          wins |-> CountTrades(trades, LAMBDA t : t.tp1_hit /\ ~t.sl_hit),
          losses |-> CountTrades(trades, LAMBDA t : t.sl_hit /\ ~t.tp1_hit),
          partial_wins |-> CountTrades(trades, LAMBDA t : t.tp1_hit /\ t.sl_hit),
          timeouts |-> CountTrades(trades, LAMBDA t : t.result = "TIMEOUT"),
          total_profit_percent |-> TotalProfit(trades)]

\* the StrategyPerformance list of the summary, one entry per configuration
StrategyPerformance(strategy_trades) ==
    [k \in 1..Len(RunStrategies) |->
        LET code == StrategyCode(RunStrategies[k])
        IN  [code |-> code, stats |-> CalculateStrategyStats(strategy_trades[code])]]

\* the locals of the scan as run sets them before the loop; evaluated and
\* simulated count the calls of generate_signal and of simulate_trade
RunLocals(i) ==
    [i |-> i,
     signals_found |-> 0,
     position_open |-> FALSE,
     position_close_candle |-> START_INDEX,
     strategy_trades |-> [code \in RunCodes |-> <<>>],
     strategy_position_open |-> [code \in RunCodes |-> FALSE],
     strategy_close_candle |-> [code \in RunCodes |-> START_INDEX],
     strategy_regime_mults |-> [code \in RunCodes |-> <<>>],
     evaluated |-> 0,
     simulated |-> 0]

\* `if not self.execution_candles` negated
HasExecutionCandles(candles) == candles # <<>>

\* variant: a short history is scanned all the same
EnoughSignalCandlesAlways(candles) == TRUE

\* `if len(self.signal_candles) < 100` negated
EnoughSignalCandles(candles) == ~(Len(candles) < MIN_SIGNAL_CANDLES)

\* a stream's gate: the position opened earlier is still open at index i
\* variant: a stream never counts as busy
StreamNeverBusy(position_open, i, close_candle) == FALSE

StreamBusy(position_open, i, close_candle) == position_open /\ i < close_candle

\* what the indicators make of signal_candles[:i + 1]
HistoricalData(candles, i, fd) ==
    [len |-> i + 1, close |-> candles[i + 1].close, adx |-> fd.adx, atr |-> Some(fd.atr)]

\* generate_signal: None for a short history or when the aggregator raises
GenerateSignal(dat, vs) ==
    IF dat.len < MIN_SIGNAL_CANDLES THEN None
    ELSE LET sig == Aggregate(RunAllStrategies(RunStrategies, vs), RunCfg, dat)
         IN  IF sig.raised THEN None ELSE Some(sig)

\* _compute_atr on the same window
ComputeAtr(dat) == IF dat.len < ATR_WINDOW \/ dat.atr = None THEN 0 ELSE dat.atr[1]

\* AggregatedSignal(direction, confidence, entry_price) of one strategy
StrategySignal(result, entry_price) ==
    AggregatedSignal(result.direction, result.confidence, entry_price, <<>>,
                     TallyZero, Rat(0, 1), Rat(0, 1))

\* _apply_sl_tp
ApplySlTp(sig, atr) == IF atr <= 0 THEN sig ELSE CalculateSlTp(sig, RunCfg, atr)

\* max_exec_candles = 24 * (signal_minutes // exec_minutes)
MaxExecCandles(tf) ==
    TRADE_HORIZON * (TIMEFRAME_MINUTES[tf]
                        \div TIMEFRAME_MINUTES[GetSmallestExecutionTf(tf)])

\* int(trade.exit_time.timestamp() * 1000): the float product of a time
\* ending in ...999 ms may fall 1 ms short
ExitTs(exit_time, short) == exit_time[1] - short

\* the candle index from which the stream counts as flat again
CloseCandle(t, i, candles, short) ==
    LET total == Len(candles)
        later == IF t.exit_time = None THEN {}
                 ELSE {j \in (i + 1)..(Min(i + CLOSE_SEARCH, total) - 1) :
                         candles[j + 1].open_time >= ExitTs(t.exit_time, short)}
    IN  IF later # {} THEN CHOOSE j \in later : \A k \in later : j <= k
        ELSE Min(i + CLOSE_FALLBACK, total)

\* the ensemble stream after trade t was simulated at index r.i
EnsembleTraded(r, s, t, candles, short) ==
    [run |-> [r EXCEPT !.signals_found = r.signals_found + 1,
                       !.simulated = r.simulated + 1,
                       !.position_open = TRUE,
                       !.position_close_candle = CloseCandle(t, r.i, candles, short)],
     summary |-> [s EXCEPT !.trades = Append(s.trades, t)]]

\* the ensemble part of one iteration
EnsembleTrade(r, s, sig, signal_time, exec, candles, tf, short) ==
    IF sig.direction # "NEUTRAL"
    THEN EnsembleTraded(r, s, SimulateTrade(sig, signal_time, exec, MaxExecCandles(tf)),
                        candles, short)
    ELSE [run |-> r, summary |-> s]

\* the stream of strategy `code` after trade t was simulated at index r.i
StrategyTraded(r, code, t, regime_mult, candles, short) ==
    [r EXCEPT
        !.strategy_trades[code] = Append(r.strategy_trades[code], t),
        !.strategy_regime_mults[code] = Append(r.strategy_regime_mults[code], regime_mult),
        !.simulated = r.simulated + 1,
        !.strategy_position_open[code] = TRUE,
        !.strategy_close_candle[code] = CloseCandle(t, r.i, candles, short)]

\* one iteration of `for result in signal.strategy_results`
StrategyTrade(r, result, sig, dat, signal_time, exec, candles, tf, short) ==
    IF result.name \notin DOMAIN StrategyCodeMap THEN r
    ELSE IF StreamBusy(r.strategy_position_open[StrategyCodeMap[result.name]], r.i,
                       r.strategy_close_candle[StrategyCodeMap[result.name]])
    THEN r
    ELSE IF \/ result.direction = "NEUTRAL"
            \/ result.confidence < RunCfg.threshold
            \/ ComputeAtr(dat) <= 0
    THEN [r EXCEPT !.strategy_position_open[StrategyCodeMap[result.name]] = FALSE]
    ELSE StrategyTraded(
            [r EXCEPT !.strategy_position_open[StrategyCodeMap[result.name]] = FALSE],
            StrategyCodeMap[result.name],
            SimulateTrade(ApplySlTp(StrategySignal(result, sig.entry_price),
                                    ComputeAtr(dat)),
                          signal_time, exec, MaxExecCandles(tf)),
            GetRegimeMultiplier(GetAdx(dat), result.name),
            candles, short)

RECURSIVE StrategyTrades(_, _, _, _, _, _, _, _, _, _)
StrategyTrades(r, rs, k, sig, dat, signal_time, exec, candles, tf, short) ==
    IF k > Len(rs) THEN r
    ELSE StrategyTrades(StrategyTrade(r, rs[k], sig, dat, signal_time, exec,
                                      candles, tf, short),
                        rs, k + 1, sig, dat, signal_time, exec, candles, tf, short)

\* the flags of the strategies whose close index is reached
RefreshStrategies(r) ==
    [r EXCEPT !.strategy_position_open =
        [code \in RunCodes |->
            r.strategy_position_open[code] /\ ~(r.i >= r.strategy_close_candle[code])]]

\* the strategy part of one iteration, after the ensemble part e
ScanStrategies(e, sig, dat, signal_time, exec, candles, tf, short) ==
    [run |-> StrategyTrades(e.run, sig.strategy_results, 1, sig, dat, signal_time,
                            exec, candles, tf, short),
     summary |-> e.summary]

\* one iteration from `if not signal` on
ScanSignal(r, s, generated, dat, signal_time, exec, candles, tf, short) ==
    IF generated = None THEN [run |-> r, summary |-> s]
    ELSE ScanStrategies(EnsembleTrade(r, s, generated[1], signal_time, exec, candles,
                                      tf, short),
                        generated[1], dat, signal_time, exec, candles, tf, short)

\* the body of `for i in range(start_index, total_candles)` after the
\* progress report
ScanBody(r, s, vs, exec, candles, tf, fd, short) ==
    IF StreamBusy(r.position_open, r.i, r.position_close_candle)
    THEN [run |-> r, summary |-> s]
    ELSE ScanSignal(RefreshStrategies([r EXCEPT !.position_open = FALSE,
                                                !.evaluated = r.evaluated + 1]),
                    s,
                    GenerateSignal(HistoricalData(candles, r.i, fd), vs),
                    HistoricalData(candles, r.i, fd),
                    candles[r.i + 1].close_time,
                    exec, candles, tf, short)

\* what the exchange holds: n one-minute klines and the indicators on them
Feed(n, up, down, every, gap, atr) ==
    [n |-> n, up |-> up, down |-> down, every |-> every, gap |-> gap,
     atr |-> atr, adx |-> 30]

NoFeed == Feed(0, 0, 0, 1, 0, 0)

\* whether one `await progress_callback(...)` raises
CallbackRaises(callback) ==
    CASE callback = "raises" -> {TRUE}
      [] callback = "flaky" -> {TRUE, FALSE}
      [] OTHER -> {FALSE}

(***************************************************************************)
(* The parts of the state a specification does not use rest at these       *)
(* values.                                                                 *)
(***************************************************************************)
AggIdle ==
    /\ data = NoData
    /\ cfg = IdleCfg
    /\ outcomes = <<>>
    /\ results = <<>>
    /\ signal = NoSignal

WeightIdle == wt = NoWeights

TradeIdle == sim = NoSim /\ trade = NoTrade

CandlesIdle == ac = NoAggregateCandlesArgs /\ aggregated = <<>>

PerfIdle == stats = NoStats /\ suggested_weight = 0

FetchIdle ==
    /\ now = 0
    /\ cache = <<>>
    /\ cache0 = <<>>
    /\ fetch = NoFetch
    /\ requested = {}
    /\ written = {}
    /\ progress_callback = "none"

RunIdle ==
    /\ feed = NoFeed
    /\ signal_timeframe = "1m"
    /\ self_execution_candles = <<>>
    /\ self_signal_candles = <<>>
    /\ run = RunLocals(0)
    /\ summary = Summary(<<>>)
    /\ verdicts = <<>>

TasksIdle ==
    /\ tasks = <<>>
    /\ month_files = <<>>

StoreIdle ==
    /\ report = <<>>
    /\ stored = <<>>
    /\ loaded = <<>>

ConfigIdle ==
    /\ strategy_store = <<>>
    /\ strategy_configs = <<>>

(***************************************************************************)
(* aggregate(results) applied to the results of strategies that ran.       *)
(***************************************************************************)
AggregateCall ==
    /\ pc = "aggregate"
    /\ signal' = Aggregate(results, cfg, data)
    /\ pc' = IF signal'.raised THEN "raised" ELSE "returned"
    /\ UNCHANGED <<data, cfg, outcomes, results, wt, tradeVars, candleVars, perfVars, fetchVars, runVars, taskVars, storeVars, configVars>>

InitAggregate ==
    /\ pc = "aggregate"
    /\ data \in [len : {100}, close : ClosePrices, adx : AdxValues,
                 atr : {Some(a) : a \in AtrValues}]
    /\ cfg \in {Cfg(t, r, PerfWeights) : t \in Thresholds, r \in MinVoteRatios}
    /\ \E n \in Counts :
         /\ outcomes \in [1..n -> OutcomeChoices \ {Outcome(TRUE, "NEUTRAL", 0)}]
         /\ results = RunAllStrategies(Strategies(n), outcomes)
    /\ signal = NoSignal
    /\ WeightIdle
    /\ TradeIdle
    /\ CandlesIdle
    /\ PerfIdle
    /\ FetchIdle
    /\ RunIdle
    /\ TasksIdle
    /\ StoreIdle
    /\ ConfigIdle

NextAggregate == AggregateCall

SpecAggregate == InitAggregate /\ [][NextAggregate]_vars

(***************************************************************************)
(* SignalAggregator.run: run_all_strategies, then aggregate.               *)
(***************************************************************************)
RunAllStrategiesCall ==
    /\ pc = "run"
    /\ results' = RunAllStrategies(Strategies(Len(outcomes)), outcomes)
    /\ pc' = "aggregate"
    /\ UNCHANGED <<data, cfg, outcomes, signal, wt, tradeVars, candleVars, perfVars, fetchVars, runVars, taskVars, storeVars, configVars>>

\* Candle windows: empty, shorter than the ATR window (the indicator
\* library either raises or yields 0 there), and long enough.
RunData ==
    {NoData}
    \cup [len : {5}, close : ClosePrices, adx : {0}, atr : {None, Some(0)}]
    \cup [len : {100}, close : ClosePrices, adx : {30},
          atr : {Some(a) : a \in AtrValues}]

\* BaseStrategy.run reads df.iloc[-1]: on an empty window every strategy raises.
OutcomesFor(dat, n) ==
    IF dat.len = 0 THEN {[i \in 1..n |-> Outcome(TRUE, "NEUTRAL", 0)]}
    ELSE [1..n -> OutcomeChoices]

Init ==
    /\ pc = "run"
    /\ data \in RunData
    /\ cfg = Cfg(DEFAULT_THRESHOLD, MIN_VOTE_RATIO_DEFAULT, EmptyDict)
    /\ \E n \in Counts : outcomes \in OutcomesFor(data, n)
    /\ results = <<>>
    /\ signal = NoSignal
    /\ WeightIdle
    /\ TradeIdle
    /\ CandlesIdle
    /\ PerfIdle
    /\ FetchIdle
    /\ RunIdle
    /\ TasksIdle
    /\ StoreIdle
    /\ ConfigIdle

Next == RunAllStrategiesCall \/ AggregateCall

Spec == Init /\ [][Next]_vars

(***************************************************************************)
(* The actual weight: the factors are drawn, ComputeWeights applies the    *)
(* aggregator's and the backtester's formula to them.                      *)
(***************************************************************************)
BaseWeights == {0, 8, 9, 10, 11, 12}
PerfValues == {1, 3, 10, 25, 30}
RegimeValues == {RANGE_DAMPEN, TREND_DAMPEN, 100, RANGE_BOOST, TREND_BOOST}
StabilityValues == {5, 10, 15}
CorrelationValues == {5, 10}

InitWeight ==
    /\ pc = "weights"
    /\ wt \in {Weights(b, p, r, st, co, 0, 0) :
                 b \in BaseWeights, p \in PerfValues, r \in RegimeValues,
                 st \in StabilityValues, co \in CorrelationValues}
    /\ AggIdle
    /\ TradeIdle
    /\ CandlesIdle
    /\ PerfIdle
    /\ FetchIdle
    /\ RunIdle
    /\ TasksIdle
    /\ StoreIdle
    /\ ConfigIdle

ComputeWeights ==
    /\ pc = "weights"
    /\ wt' = [wt EXCEPT
                !.actual = ActualWeight(wt.base, wt.perf, wt.regime, wt.stability, wt.corr),
                !.recorded = RecordedActualWeight(wt.base, wt.perf, wt.regime,
                                                   wt.stability, wt.corr)]
    /\ pc' = "weighted"
    /\ UNCHANGED <<aggVars, tradeVars, candleVars, perfVars, fetchVars, runVars, taskVars, storeVars, configVars>>

NextWeight == ComputeWeights

SpecWeight == InitWeight /\ [][NextWeight]_vars

(***************************************************************************)
(* simulate_trade applied to a signal with its stop and targets set and to *)
(* a list of execution candles.                                            *)
(***************************************************************************)
MaxCandles == 3
MaxTradeCandles == 2

\* a LONG or SHORT signal at 1000 with the stop and the targets of an ATR
TradeSignal(d, atr) ==
    CalculateSlTp(
        AggregatedSignal(d, Rat(80, 1), 1000, <<>>, TallyZero, Rat(0, 1), Rat(0, 1)),
        IdleCfg, atr)

\* the price levels a candle can touch: the stop, the entry, the targets
PriceLevels(d) ==
    IF d = "LONG" THEN <<970, 1000, 1030, 1060, 1090>>
    ELSE <<910, 940, 970, 1000, 1030>>

\* a price between the stop and the entry
LosingPrice(d) == IF d = "LONG" THEN 985 ELSE 1015

\* the stop, the entry and the three targets of TradeSignal, numbered 0 to 4
Level(d, k) == IF d = "LONG" THEN PriceLevels(d)[k + 1] ELSE PriceLevels(d)[5 - k]

\* a candle that spans levels a and b and closes at level c
Reach(d, a, b, c) ==
    [low |-> Min(Level(d, a), Level(d, b)), high |-> Max(Level(d, a), Level(d, b)),
     close |-> Level(d, c)]

\* a candle between the stop and the entry
LosingCandle(d) ==
    [low |-> LosingPrice(d), high |-> LosingPrice(d), close |-> LosingPrice(d)]

\* candles that fall from the entry to the stop, reach the stop and TP1,
\* stay at the entry, run from the entry to TP1 (closing at either end), to
\* TP2 or to TP3, stay at TP1, run from TP1 to TP2 or from TP2 to TP3, and
\* the candle between the stop and the entry
CandleShapes(d) ==
    {Reach(d, 0, 1, 0), Reach(d, 0, 2, 2), Reach(d, 1, 1, 1), Reach(d, 1, 2, 2),
     Reach(d, 1, 2, 1), Reach(d, 1, 3, 3), Reach(d, 1, 4, 4), Reach(d, 2, 2, 2),
     Reach(d, 2, 3, 3), Reach(d, 3, 4, 4), LosingCandle(d)}

\* execution candle k opens at 10 k and closes at 10 k + 9
ExecutionCandles(shapes) ==
    [k \in 1..Len(shapes) |->
        Candle(10 * k, shapes[k].low, shapes[k].high, shapes[k].close, 10 * k + 9)]

InitTrade ==
    /\ pc = "simulate"
    /\ \E d \in {"LONG", "SHORT"}, n \in 0..MaxCandles, signal_time \in {9, 19} :
         \E shapes \in [1..n -> CandleShapes(d)] :
            \E atr \in AtrValues :
                sim = Sim(TradeSignal(d, atr), signal_time,
                          ExecutionCandles(shapes), MaxTradeCandles)
    /\ trade = NoTrade
    /\ AggIdle
    /\ WeightIdle
    /\ CandlesIdle
    /\ PerfIdle
    /\ FetchIdle
    /\ RunIdle
    /\ TasksIdle
    /\ StoreIdle
    /\ ConfigIdle

SimulateTradeCall ==
    /\ pc = "simulate"
    /\ trade' = SimulateTrade(sim.signal, sim.signal_time,
                              sim.execution_candles, sim.max_candles)
    /\ pc' = "simulated"
    /\ UNCHANGED <<aggVars, wt, sim, candleVars, perfVars, fetchVars, runVars, taskVars, storeVars, configVars>>

NextTrade == SimulateTradeCall

SpecTrade == InitTrade /\ [][NextTrade]_vars

(***************************************************************************)
(* aggregate_candles applied to a list of one-minute klines.               *)
(***************************************************************************)
MaxSmallCandles == 7

\* open, high, low, close, volume of the klines drawn
KlineShapes ==
    {[open |-> 10, high |-> 12, low |-> 9, close |-> 11, volume |-> 1],
     [open |-> 11, high |-> 15, low |-> 10, close |-> 14, volume |-> 2],
     [open |-> 14, high |-> 14, low |-> 7, close |-> 8, volume |-> 3]}

\* one-minute kline k opens at 60000 k ms and closes 1 ms before the next
MinuteKlines(shapes) ==
    [k \in 1..Len(shapes) |->
        Kline(60000 * k, shapes[k].open, shapes[k].high, shapes[k].low,
              shapes[k].close, shapes[k].volume, 60000 * k + 59999,
              shapes[k].volume * shapes[k].close, shapes[k].volume + 1,
              shapes[k].volume, shapes[k].volume * shapes[k].open)]

TargetTimeframes == {"1m", "3m", "5m"}

InitCandles ==
    /\ pc = "aggregate_candles"
    /\ \E n \in 0..MaxSmallCandles, target_tf \in TargetTimeframes :
         \E shapes \in [1..n -> KlineShapes] :
            ac = AggregateCandlesArgs(MinuteKlines(shapes), target_tf)
    /\ aggregated = <<>>
    /\ AggIdle
    /\ WeightIdle
    /\ TradeIdle
    /\ PerfIdle
    /\ FetchIdle
    /\ RunIdle
    /\ TasksIdle
    /\ StoreIdle
    /\ ConfigIdle

AggregateCandlesCall ==
    /\ pc = "aggregate_candles"
    /\ aggregated' = AggregateCandles(ac.candles_small, ac.target_tf,
                                      GetSmallestExecutionTf(ac.target_tf))
    /\ pc' = "aggregated"
    /\ UNCHANGED <<aggVars, wt, tradeVars, ac, perfVars, fetchVars, runVars, taskVars, storeVars, configVars>>

NextCandles == AggregateCandlesCall

SpecCandles == InitCandles /\ [][NextCandles]_vars

(***************************************************************************)
(* _calculate_performance_weight applied to the statistics of a stream.    *)
(***************************************************************************)
MaxTotalSignals == 31

ProfitFactors == {0, 40, 110, 123, 157, 500}
WinRates == {0, 20, 55, 67, 100}

\* no trade: every statistic is zero (_calculate_strategy_stats)
StatsChoices ==
    {NoStats} \cup
    {Stats(n, pf, wr) : n \in 1..MaxTotalSignals, pf \in ProfitFactors, wr \in WinRates}

InitPerf ==
    /\ pc = "performance_weight"
    /\ stats \in StatsChoices
    /\ suggested_weight = 0
    /\ AggIdle
    /\ WeightIdle
    /\ TradeIdle
    /\ CandlesIdle
    /\ FetchIdle
    /\ RunIdle
    /\ TasksIdle
    /\ StoreIdle
    /\ ConfigIdle

CalculatePerformanceWeightCall ==
    /\ pc = "performance_weight"
    /\ suggested_weight' = CalculatePerformanceWeight(stats)
    /\ pc' = "weight_returned"
    /\ UNCHANGED <<aggVars, wt, tradeVars, candleVars, stats, fetchVars, runVars, taskVars, storeVars, configVars>>

NextPerf == CalculatePerformanceWeightCall

SpecPerf == InitPerf /\ [][NextPerf]_vars

(***************************************************************************)
(* fetch_data_by_chunks over a range of at most MaxMonths months.  One     *)
(* step per month of the outer loop, one per request of the inner loop,    *)
(* one for the 10 s sleep after a 429.                                     *)
(***************************************************************************)
MaxMonths == 2

\* the clock stands in month m, two klines of it listed
Clocks == {MonthStart(m) + 3 : m \in 1..(MaxMonths + 1)}

\* the klines of month m listed by the clock
MonthKlines(m, clock) ==
    SortedSeq({t \in MonthStart(m)..Min(MonthEnd(m), clock) : t % 2 = 0})

\* a month's cache file: missing, unreadable, without rows, or holding the
\* month's klines
CacheFiles(m, clock) ==
    {CacheFile(FALSE, FALSE, <<>>), CacheFile(TRUE, FALSE, <<>>),
     CacheFile(TRUE, TRUE, <<>>), CacheFile(TRUE, TRUE, MonthKlines(m, clock))}

\* what one GET does: 200 with the klines, 429, another status, an exception
ResponseKinds == {"ok", "rate_limited", "error", "exception"}

InitFetch ==
    /\ pc = "month"
    /\ now \in Clocks
    /\ cache \in {files \in [1..MaxMonths -> UNION {CacheFiles(m, now) : m \in 1..MaxMonths}] :
                    \A m \in 1..MaxMonths : files[m] \in CacheFiles(m, now)}
    /\ cache0 = cache
    /\ \E first \in {MonthStart(1), MonthStart(1) + 2}, l \in 1..MaxMonths :
         \E last \in {MonthStart(l) + 2, MonthEnd(l)} :
            fetch = Fetch(first, last)
    /\ requested = {}
    /\ written = {}
    /\ progress_callback \in {"none", "ok", "raises"}
    /\ AggIdle
    /\ WeightIdle
    /\ TradeIdle
    /\ CandlesIdle
    /\ PerfIdle
    /\ RunIdle
    /\ TasksIdle
    /\ StoreIdle
    /\ ConfigIdle

\* the month the outer loop is at
CurrentMonth == fetch.months[fetch.k]

\* the rest of the outer loop's iteration once the month's candles are known
FinishMonth(f, candles) ==
    /\ fetch' = MonthDone(f, candles)
    /\ pc' = IF f.k = Len(f.months) THEN "fetched" ELSE "month"

\* _fetch_range_by_chunks returns; its candles, if any, are saved
FinishRange(f) ==
    LET candles == UniqueSorted(f.range_candles)
    IN  /\ IF candles # <<>>
           THEN /\ cache' = [cache EXCEPT ![CurrentMonth] = CacheFile(TRUE, TRUE, candles)]
                /\ written' = written \cup {CurrentMonth}
           ELSE UNCHANGED <<cache, written>>
        /\ FinishMonth([f EXCEPT !.obtained[CurrentMonth] = candles], candles)

\* one iteration of `for month_dt in months` up to the call of
\* _fetch_range_by_chunks, or to its end when the cache serves the month
FetchMonth ==
    /\ pc = "month"
    /\ LET should_refresh == MonthEnd(CurrentMonth) > now
           candles == CachedCandles(cache[CurrentMonth], should_refresh)
       IN  IF candles # <<>>
           THEN /\ FinishMonth(fetch, candles)
                /\ UNCHANGED <<cache, written>>
           ELSE /\ fetch' = [fetch EXCEPT !.range_candles = <<>>,
                                          !.current_end = MonthEnd(CurrentMonth),
                                          !.request_count = 0]
                /\ pc' = "request"
                /\ UNCHANGED <<cache, written>>
    /\ UNCHANGED <<aggVars, wt, tradeVars, candleVars, perfVars,
                   now, cache0, requested, progress_callback, runVars, taskVars, storeVars, configVars>>

\* one test of the while condition and, if it holds, one request
Request ==
    /\ pc = "request"
    /\ IF ~(fetch.current_end > MonthStart(CurrentMonth)
            /\ fetch.request_count < MAX_REQUESTS)
       THEN /\ FinishRange(fetch)
            /\ UNCHANGED requested
       ELSE /\ requested' = requested \cup {CurrentMonth}
            /\ \E response \in ResponseKinds :
                 IF response = "rate_limited"
                 THEN /\ pc' = "rate_limited"
                      /\ UNCHANGED <<fetch, cache, written>>
                 ELSE IF response # "ok"
                 THEN FinishRange(fetch)
                 ELSE LET klines == Klines(fetch.current_end, now)
                          filtered == InRange(klines, MonthStart(CurrentMonth),
                                              MonthEnd(CurrentMonth))
                          f == IF klines = <<>> THEN fetch
                               ELSE [fetch EXCEPT
                                        !.range_candles = filtered \o fetch.range_candles,
                                        !.current_end = klines[1] - 1]
                      IN  IF \/ klines = <<>>
                             \/ progress_callback = "raises"
                             \/ klines[1] <= MonthStart(CurrentMonth)
                          THEN FinishRange(f)
                          ELSE /\ fetch' = [f EXCEPT !.request_count = f.request_count + 1]
                               /\ pc' = "request"
                               /\ UNCHANGED <<cache, written>>
    /\ UNCHANGED <<aggVars, wt, tradeVars, candleVars, perfVars,
                   now, cache0, progress_callback, runVars, taskVars, storeVars, configVars>>

\* await asyncio.sleep(10); continue
RateLimitWait ==
    /\ pc = "rate_limited"
    /\ pc' = "request"
    /\ UNCHANGED <<aggVars, wt, tradeVars, candleVars, perfVars, fetchVars, runVars, taskVars, storeVars, configVars>>

NextFetch == FetchMonth \/ Request \/ RateLimitWait

SpecFetch == InitFetch /\ [][NextFetch]_vars

\* the event loop keeps running the coroutine
SpecFetchLive == SpecFetch /\ WF_vars(NextFetch)

(***************************************************************************)
(* Backtester.run.  The exchange's answer to the fetch is drawn: a feed of *)
(* one-minute klines, flat at FeedPrice but for the excursion of every     *)
(* fd.every-th kline, with one hour of klines missing from kline fd.gap on *)
(* (a month that could not be fetched), and the ATR and ADX the indicators *)
(* give on it.  The strategies' verdicts are drawn at each index.          *)
(***************************************************************************)
MaxScan == 4

FeedPrice == 1000

FeedKline(fd, k) ==
    LET minute == IF fd.gap > 0 /\ k >= fd.gap THEN k + 60 ELSE k
        moves == k % fd.every = 0
    IN  Kline(60000 * minute, FeedPrice,
              IF moves THEN FeedPrice + fd.up ELSE FeedPrice,
              IF moves THEN FeedPrice - fd.down ELSE FeedPrice,
              FeedPrice, 1, 60000 * minute + 59999, FeedPrice, 1, 1, FeedPrice)

FeedKlines(fd) == [k \in 1..fd.n |-> FeedKline(fd, k)]

SignalTimeframes == {"1m", "3m"}

Ratio(tf) == TIMEFRAME_MINUTES[tf] \div TIMEFRAME_MINUTES[GetSmallestExecutionTf(tf)]

\* nothing, one kline short of 100 signal candles, or MaxScan indices to scan
\* and an incomplete trailing chunk
FeedLengths(tf) ==
    {0, MIN_SIGNAL_CANDLES * Ratio(tf) - 1,
     (START_INDEX + MaxScan) * Ratio(tf) + (Ratio(tf) - 1)}

FeedShapes ==
    {[up |-> 0, down |-> 0, every |-> 1, atr |-> 0],
     [up |-> 0, down |-> 0, every |-> 1, atr |-> 20],
     [up |-> 100, down |-> 0, every |-> 1, atr |-> 20],
     [up |-> 0, down |-> 100, every |-> 1, atr |-> 20],
     [up |-> 100, down |-> 0, every |-> 4, atr |-> 20],
     [up |-> 40, down |-> 0, every |-> 1, atr |-> 20]}

\* the first strategy abstains or goes long, the second goes long below or
\* above the threshold
VerdictChoices ==
    {<<a, b>> : a \in {Outcome(FALSE, "NEUTRAL", 0), Outcome(FALSE, "LONG", 80)},
                b \in {Outcome(FALSE, "LONG", 40), Outcome(FALSE, "LONG", 80)}}

CallbackKinds == {"none", "ok", "raises", "flaky"}

InitRun ==
    /\ pc = "run"
    /\ \E tf \in SignalTimeframes, shape \in FeedShapes :
         \E n \in FeedLengths(tf), gap \in {0, (START_INDEX + 1) * Ratio(tf) + 2} :
            /\ feed = Feed(n, shape.up, shape.down, shape.every, gap, shape.atr)
            /\ signal_timeframe = tf
    /\ self_execution_candles = <<>>
    /\ self_signal_candles = <<>>
    /\ run = RunLocals(0)
    /\ summary = Summary(<<>>)
    /\ verdicts = <<>>
    /\ progress_callback \in CallbackKinds
    /\ now = 0
    /\ cache = <<>>
    /\ cache0 = <<>>
    /\ fetch = NoFetch
    /\ requested = {}
    /\ written = {}
    /\ AggIdle
    /\ WeightIdle
    /\ TradeIdle
    /\ CandlesIdle
    /\ PerfIdle
    /\ TasksIdle
    /\ StoreIdle
    /\ ConfigIdle

\* run up to the call of fetch_data_by_chunks: the summary, the strategy
\* configurations and the first progress report
RunStart ==
    /\ pc = "run"
    /\ \E raises \in CallbackRaises(progress_callback) :
         pc' = IF raises THEN "raised" ELSE "fetching"
    /\ UNCHANGED <<aggVars, wt, tradeVars, candleVars, perfVars, fetchVars, runVars, taskVars, storeVars, configVars>>

\* fetch_data_by_chunks returns; run goes on to the call of aggregate_candles
FetchReturns ==
    /\ pc = "fetching"
    /\ self_execution_candles' = FeedKlines(feed)
    /\ IF ~HasExecutionCandles(self_execution_candles')
       THEN pc' = "returned"
       ELSE \E raises20 \in CallbackRaises(progress_callback),
               raises22 \in CallbackRaises(progress_callback) :
              pc' = IF raises20 \/ raises22 THEN "raised" ELSE "aggregate"
    /\ UNCHANGED <<aggVars, wt, tradeVars, candleVars, perfVars, fetchVars,
                   feed, signal_timeframe, self_signal_candles, run, summary,
                   verdicts, taskVars, storeVars, configVars>>

\* the position of run after index i was handled
AfterIndex(i, total) == IF i < total THEN "scan" ELSE "finalize"

\* aggregate_candles and what follows it up to the loop
AggregateStep ==
    /\ pc = "aggregate"
    /\ self_signal_candles' =
         AggregateCandles(self_execution_candles, signal_timeframe,
                          GetSmallestExecutionTf(signal_timeframe))
    /\ IF ~EnoughSignalCandles(self_signal_candles')
       THEN /\ pc' = "returned"
            /\ UNCHANGED run
       ELSE \E raises \in CallbackRaises(progress_callback) :
              IF raises
              THEN /\ pc' = "raised"
                   /\ UNCHANGED run
              ELSE /\ pc' = AfterIndex(START_INDEX, Len(self_signal_candles'))
                   /\ run' = RunLocals(START_INDEX)
    /\ UNCHANGED <<aggVars, wt, tradeVars, candleVars, perfVars, fetchVars,
                   feed, signal_timeframe, self_execution_candles, summary,
                   verdicts, taskVars, storeVars, configVars>>

\* one iteration of `for i in range(start_index, total_candles)`
ScanStep ==
    /\ pc = "scan"
    /\ \E vs \in VerdictChoices, short \in {0, 1},
          raises \in IF run.i % PROGRESS_EVERY = 0
                     THEN CallbackRaises(progress_callback) ELSE {FALSE} :
         /\ verdicts' = vs
         /\ IF raises
            THEN /\ pc' = "raised"
                 /\ UNCHANGED <<run, summary>>
            ELSE \E body \in {ScanBody(run, summary, vs, self_execution_candles,
                                        self_signal_candles, signal_timeframe,
                                        feed, short)} :
                    /\ run' = [body.run EXCEPT !.i = run.i + 1]
                    /\ summary' = body.summary
                    /\ pc' = AfterIndex(run.i + 1, Len(self_signal_candles))
    /\ UNCHANGED <<aggVars, wt, tradeVars, candleVars, perfVars, fetchVars,
                   feed, signal_timeframe, self_execution_candles,
                   self_signal_candles, taskVars, storeVars, configVars>>

\* the statistics, the strategy performance and the return
Finalize ==
    /\ pc = "finalize"
    /\ \E raises95 \in CallbackRaises(progress_callback),
          raises100 \in CallbackRaises(progress_callback) :
         IF raises95
         THEN /\ pc' = "raised"
              /\ UNCHANGED summary
         ELSE /\ summary' = [CalculateStatistics(summary) EXCEPT
                               !.strategy_performance =
                                   StrategyPerformance(run.strategy_trades)]
              /\ pc' = IF raises100 THEN "raised" ELSE "returned"
    /\ UNCHANGED <<aggVars, wt, tradeVars, candleVars, perfVars, fetchVars,
                   feed, signal_timeframe, self_execution_candles,
                   self_signal_candles, run, verdicts, taskVars, storeVars, configVars>>

NextRun == RunStart \/ FetchReturns \/ AggregateStep \/ ScanStep \/ Finalize

SpecRun == InitRun /\ [][NextRun]_vars

(***************************************************************************)
(* Backtester runs as concurrent tasks of one event loop (one run per      *)
(* confirmed request, handlers/backtest.py).  Each run is at one month of  *)
(* fetch_data_by_chunks; the cache file of a (symbol, month) is the same   *)
(* path for every run (_month_cache_path).  A run is suspended at each     *)
(* await of _fetch_range_by_chunks, where any other run may go on; what    *)
(* lies between two awaits is one step.                                    *)
(***************************************************************************)
MaxRuns == 2

Runs == 1..MaxRuns

Symbols == {"BTCUSDT", "ETHUSDT"}

\* one run, about to look at the cache file of its month
Task(symbol, month) ==
    [symbol |-> symbol, month |-> month, at |-> "check",
     current_end |-> 0, range_candles |-> <<>>, request_count |-> 0,
     candles |-> <<>>]

InitTasks ==
    /\ pc = "tasks"
    /\ now \in Clocks
    /\ tasks \in [Runs -> {Task(symbol, m) : symbol \in Symbols, m \in 1..MaxMonths}]
    /\ month_files \in
          [Symbols -> {fs \in [1..MaxMonths ->
                                 UNION {{CacheFile(FALSE, FALSE, <<>>),
                                         CacheFile(TRUE, TRUE, MonthKlines(m, now))} :
                                            m \in 1..MaxMonths}] :
                          \A m \in 1..MaxMonths :
                              fs[m] \in {CacheFile(FALSE, FALSE, <<>>),
                                         CacheFile(TRUE, TRUE, MonthKlines(m, now))}}]
    /\ cache = <<>>
    /\ cache0 = <<>>
    /\ fetch = NoFetch
    /\ requested = {}
    /\ written = {}
    /\ progress_callback = "none"
    /\ AggIdle
    /\ WeightIdle
    /\ TradeIdle
    /\ CandlesIdle
    /\ PerfIdle
    /\ RunIdle
    /\ StoreIdle
    /\ ConfigIdle

\* the run looks at its month's cache file and either takes the month from
\* it or enters _fetch_range_by_chunks, up to the first await
CheckCache(r) ==
    LET t == tasks[r]
        should_refresh == MonthEnd(t.month) > now
        candles == CachedCandles(month_files[t.symbol][t.month], should_refresh)
    IN  /\ t.at = "check"
        /\ tasks' = [tasks EXCEPT ![r] =
                        IF candles # <<>>
                        THEN [t EXCEPT !.at = "done", !.candles = candles]
                        ELSE [t EXCEPT !.at = "request",
                                       !.range_candles = <<>>,
                                       !.current_end = MonthEnd(t.month),
                                       !.request_count = 0]]
        /\ UNCHANGED <<pc, aggVars, wt, tradeVars, candleVars, perfVars, fetchVars,
                       runVars, month_files, storeVars, configVars>>

\* _fetch_range_by_chunks returns to the run, which saves the candles, if any
TaskReturns(r, t) ==
    LET candles == UniqueSorted(t.range_candles)
    IN  /\ tasks' = [tasks EXCEPT ![r] = [t EXCEPT !.at = "done", !.candles = candles]]
        /\ IF candles # <<>>
           THEN month_files' = [month_files EXCEPT ![t.symbol][t.month] =
                                    CacheFile(TRUE, TRUE, candles)]
           ELSE UNCHANGED month_files

\* the run resumes: one test of the while condition and, if it holds, one
\* request and what follows its answer up to the next await
TaskRequest(r) ==
    LET t == tasks[r]
    IN  /\ t.at = "request"
        /\ IF ~(t.current_end > MonthStart(t.month) /\ t.request_count < MAX_REQUESTS)
           THEN TaskReturns(r, t)
           ELSE \E response \in ResponseKinds :
                  IF response = "rate_limited"
                  THEN /\ tasks' = [tasks EXCEPT ![r].at = "rate_limited"]
                       /\ UNCHANGED month_files
                  ELSE IF response # "ok"
                  THEN TaskReturns(r, t)
                  ELSE LET klines == Klines(t.current_end, now)
                           filtered == InRange(klines, MonthStart(t.month),
                                               MonthEnd(t.month))
                           f == IF klines = <<>> THEN t
                                ELSE [t EXCEPT
                                         !.range_candles = filtered \o t.range_candles,
                                         !.current_end = klines[1] - 1]
                       IN  IF \/ klines = <<>>
                              \/ progress_callback = "raises"
                              \/ klines[1] <= MonthStart(t.month)
                           THEN TaskReturns(r, f)
                           ELSE /\ tasks' = [tasks EXCEPT ![r] =
                                               [f EXCEPT !.request_count =
                                                            f.request_count + 1]]
                                /\ UNCHANGED month_files
        /\ UNCHANGED <<pc, aggVars, wt, tradeVars, candleVars, perfVars, fetchVars,
                       runVars, storeVars, configVars>>

\* await asyncio.sleep(10); continue
TaskWait(r) ==
    /\ tasks[r].at = "rate_limited"
    /\ tasks' = [tasks EXCEPT ![r].at = "request"]
    /\ UNCHANGED <<pc, aggVars, wt, tradeVars, candleVars, perfVars, fetchVars,
                   runVars, month_files, storeVars, configVars>>

NextTasks ==
    \E r \in Runs : CheckCache(r) \/ TaskRequest(r) \/ TaskWait(r)

SpecTasks == InitTasks /\ [][NextTasks]_vars

(***************************************************************************)
(* Saving a finished backtest (save_backtest_result) and rebuilding its    *)
(* summary from the row (backtest_send_existing_pdf).  A JSON value is a   *)
(* record tagged with its kind; the text of a number is its decimal        *)
(* digits (numerator over denominator for a ratio) and the text of a       *)
(* datetime is the digits of its seconds and of its microseconds.  A JSON  *)
(* object is a function from its keys, a JSON array a sequence.            *)
(***************************************************************************)
MaxSavedTrades == 2

Magnitude(x) == IF x < 0 THEN -x ELSE x

\* the decimal digits of a natural number, and the number they spell
RECURSIVE Digits(_)
Digits(n) == IF n < 10 THEN <<n>> ELSE Append(Digits(n \div 10), n % 10)

RECURSIVE FromDigits(_)
FromDigits(ds) ==
    IF ds = <<>> THEN 0
    ELSE 10 * FromDigits(SubSeq(ds, 1, Len(ds) - 1)) + ds[Len(ds)]

\* variant: isoformat(timespec="seconds")
IsoFormatSeconds(dt) == [seconds |-> Digits(dt \div 1000), fraction |-> <<>>]

\* datetime.isoformat(): the fraction is six digits of microseconds and is
\* left out when the microsecond is 0
IsoFormat(dt) ==
    [seconds |-> Digits(dt \div 1000),
     fraction |-> IF dt % 1000 = 0 THEN <<>>
                  ELSE [k \in 1..6 |-> (((dt % 1000) * 1000) \div 10^(6 - k)) % 10]]

\* datetime.fromisoformat(), back to ms
FromIsoFormat(text) ==
    1000 * FromDigits(text.seconds) + FromDigits(text.fraction) \div 1000

\* json.dumps of None, of a bool, of a str, of a number held as a scaled
\* integer and of a number held as a ratio
JsonNull == [json |-> "null"]
JsonBool(b) == [json |-> "literal", text |-> IF b THEN "true" ELSE "false"]
JsonString(s) == [json |-> "string", text |-> s]
JsonNumber(x) ==
    [json |-> "number", minus |-> x < 0, digits |-> Digits(Magnitude(x)), over |-> <<>>]
JsonRatio(q) ==
    [json |-> "number", minus |-> q.num < 0, digits |-> Digits(Magnitude(q.num)),
     over |-> Digits(q.den)]
JsonOptionalNumber(v) == IF v = None THEN JsonNull ELSE JsonNumber(v[1])
JsonOptionalString(v) == IF v = None THEN JsonNull ELSE JsonString(v[1])

\* json.loads of a value that is not null
JsonLoads(j) ==
    CASE j.json = "literal" -> j.text = "true"
      [] j.json = "string" -> j.text
      [] j.json = "number" ->
            IF j.over = <<>>
            THEN (IF j.minus THEN -1 ELSE 1) * FromDigits(j.digits)
            ELSE Rat((IF j.minus THEN -1 ELSE 1) * FromDigits(j.digits),
                     FromDigits(j.over))

\* d.get(key, default), and d.get(key) whose default is None
Get(d, key, default) ==
    IF key \in DOMAIN d /\ d[key].json # "null" THEN JsonLoads(d[key]) ELSE default

GetOptional(d, key) ==
    IF key \in DOMAIN d /\ d[key].json # "null" THEN Some(JsonLoads(d[key])) ELSE None

\* the dict save_backtest_result makes of a trade
TradeToDict(t) ==
    [signal_time |-> JsonString(IsoFormat(t.signal_time)),
     direction |-> JsonString(t.direction),
     confidence |-> JsonRatio(t.confidence),
     entry_price |-> JsonNumber(t.entry_price),
     stop_loss |-> JsonNumber(t.stop_loss),
     take_profit_1 |-> JsonNumber(t.take_profit_1),
     take_profit_2 |-> JsonNumber(t.take_profit_2),
     take_profit_3 |-> JsonNumber(t.take_profit_3),
     result |-> JsonString(t.result),
     exit_time |-> IF t.exit_time # None THEN JsonString(IsoFormat(t.exit_time[1]))
                   ELSE JsonNull,
     exit_price |-> JsonOptionalNumber(t.exit_price),
     tp1_hit |-> JsonBool(t.tp1_hit),
     tp2_hit |-> JsonBool(t.tp2_hit),
     tp3_hit |-> JsonBool(t.tp3_hit),
     sl_hit |-> JsonBool(t.sl_hit),
     sl_hit_at |-> JsonOptionalString(t.sl_hit_at),
     total_profit_percent |-> JsonNumber(t.total_profit_percent)]

\* the keys backtest_send_existing_pdf reads with t[...]
TradeKeys ==
    {"signal_time", "direction", "confidence", "entry_price", "stop_loss",
     "take_profit_1", "take_profit_2", "take_profit_3", "result"}

\* the TradeResult backtest_send_existing_pdf makes of a dict
TradeFromDict(d) ==
    [signal_time |-> FromIsoFormat(JsonLoads(d.signal_time)),
     direction |-> JsonLoads(d.direction),
     confidence |-> JsonLoads(d.confidence),
     entry_price |-> JsonLoads(d.entry_price),
     stop_loss |-> JsonLoads(d.stop_loss),
     take_profit_1 |-> JsonLoads(d.take_profit_1),
     take_profit_2 |-> JsonLoads(d.take_profit_2),
     take_profit_3 |-> JsonLoads(d.take_profit_3),
     result |-> JsonLoads(d.result),
     exit_time |-> IF GetOptional(d, "exit_time") # None
                   THEN Some(FromIsoFormat(JsonLoads(d.exit_time)))
                   ELSE None,
     exit_price |-> GetOptional(d, "exit_price"),
     tp1_hit |-> Get(d, "tp1_hit", FALSE),
     tp2_hit |-> Get(d, "tp2_hit", FALSE),
     tp3_hit |-> Get(d, "tp3_hit", FALSE),
     sl_hit |-> Get(d, "sl_hit", FALSE),
     sl_hit_at |-> GetOptional(d, "sl_hit_at"),
     total_profit_percent |-> Get(d, "total_profit_percent", 0)]

\* the trades appended before the loop ends or a dict lacks a key, which
\* raises into the except that logs
LoadTrades(trades_data) ==
    LET bad == {k \in 1..Len(trades_data) : ~ (TradeKeys \subseteq DOMAIN trades_data[k])}
        n == IF bad = {} THEN Len(trades_data)
             ELSE (CHOOSE k \in bad : \A j \in bad : k <= j) - 1
    IN  [k \in 1..n |-> TradeFromDict(trades_data[k])]

\* the weights of a StrategyPerformance, in millionths
PerformanceWeights(current, suggested, base, regime, stability, corr, actual) ==
    [current_weight |-> current, suggested_weight |-> suggested, base_weight |-> base,
     perf_weight |-> current, regime_mult |-> regime, stability_weight |-> stability,
     corr_penalty |-> corr, actual_weight |-> actual]

\* sum and count of the profits of one sign (sign 1: > 0, sign -1: < 0)
RECURSIVE ProfitsOfSign(_, _)
ProfitsOfSign(trades, sign) ==
    IF trades = <<>> THEN [sum |-> 0, count |-> 0]
    ELSE LET rest == ProfitsOfSign(Tail(trades), sign)
             p == Head(trades).total_profit_percent
         IN  IF sign * p > 0
             THEN [sum |-> rest.sum + p, count |-> rest.count + 1]
             ELSE rest

\* the StrategyPerformance run makes for a configuration of its trades
PerformanceEntry(code, name, trades, w) ==
    LET st == CalculateStrategyStats(trades)
        profits == ProfitsOfSign(trades, 1)
        losses == ProfitsOfSign(trades, -1)
        total_closed == st.wins + st.losses + st.partial_wins
    IN  [code |-> code,
         name |-> name,
         total_signals |-> st.total_signals,
         wins |-> st.wins,
         losses |-> st.losses,
         partial_wins |-> st.partial_wins,
         timeouts |-> st.timeouts,
         total_profit_percent |-> st.total_profit_percent,
         average_profit |-> IF profits.count > 0 THEN Rat(profits.sum, profits.count)
                            ELSE Rat(0, 1),
         average_loss |-> IF losses.count > 0 THEN Rat(-losses.sum, losses.count)
                          ELSE Rat(0, 1),
         profit_factor |-> IF losses.sum < 0 THEN Rat(profits.sum, -losses.sum)
                           ELSE Rat(0, 1),
         win_rate |-> IF total_closed > 0
                      THEN Rat(100 * (st.wins + st.partial_wins), total_closed)
                      ELSE Rat(0, 1),
         current_weight |-> w.current_weight,
         suggested_weight |-> w.suggested_weight,
         base_weight |-> w.base_weight,
         perf_weight |-> w.perf_weight,
         regime_mult |-> w.regime_mult,
         stability_weight |-> w.stability_weight,
         corr_penalty |-> w.corr_penalty,
         actual_weight |-> w.actual_weight]

\* StrategyPerformance.to_dict
ToDict(sp) ==
    [code |-> JsonString(sp.code),
     name |-> JsonString(sp.name),
     total_signals |-> JsonNumber(sp.total_signals),
     wins |-> JsonNumber(sp.wins),
     losses |-> JsonNumber(sp.losses),
     partial_wins |-> JsonNumber(sp.partial_wins),
     timeouts |-> JsonNumber(sp.timeouts),
     total_profit_percent |-> JsonNumber(sp.total_profit_percent),
     average_profit |-> JsonRatio(sp.average_profit),
     average_loss |-> JsonRatio(sp.average_loss),
     profit_factor |-> JsonRatio(sp.profit_factor),
     win_rate |-> JsonRatio(sp.win_rate),
     current_weight |-> JsonNumber(sp.current_weight),
     suggested_weight |-> JsonNumber(sp.suggested_weight),
     base_weight |-> JsonNumber(sp.base_weight),
     perf_weight |-> JsonNumber(sp.perf_weight),
     regime_mult |-> JsonNumber(sp.regime_mult),
     stability_weight |-> JsonNumber(sp.stability_weight),
     corr_penalty |-> JsonNumber(sp.corr_penalty),
     actual_weight |-> JsonNumber(sp.actual_weight)]

\* the StrategyPerformance backtest_send_existing_pdf makes of a dict
PerformanceFromDict(p) ==
    [code |-> Get(p, "code", ""),
     name |-> Get(p, "name", ""),
     total_signals |-> Get(p, "total_signals", 0),
     wins |-> Get(p, "wins", 0),
     losses |-> Get(p, "losses", 0),
     partial_wins |-> Get(p, "partial_wins", 0),
     timeouts |-> Get(p, "timeouts", 0),
     total_profit_percent |-> Get(p, "total_profit_percent", 0),
     average_profit |-> Get(p, "average_profit", Rat(0, 1)),
     average_loss |-> Get(p, "average_loss", Rat(0, 1)),
     profit_factor |-> Get(p, "profit_factor", Rat(0, 1)),
     win_rate |-> Get(p, "win_rate", Rat(0, 1)),
     current_weight |-> Get(p, "current_weight", 1000000),
     suggested_weight |-> Get(p, "suggested_weight", 1000000),
     base_weight |-> Get(p, "base_weight", 1000000),
     perf_weight |-> Get(p, "perf_weight", 1000000),
     regime_mult |-> Get(p, "regime_mult", 1000000),
     stability_weight |-> Get(p, "stability_weight", 1000000),
     corr_penalty |-> Get(p, "corr_penalty", 1000000),
     actual_weight |-> Get(p, "actual_weight", 1000000)]

\* what the execution candles after a signal can do: fall to the stop, rise
\* to TP1 and fall back to the entry, rise to TP2 and fall back to TP1, rise
\* to TP3, rise to TP1 and end there, stay between the stop and the entry
SavedScenarios(d) ==
    {<<Reach(d, 0, 1, 0)>>,
     <<Reach(d, 1, 2, 2), Reach(d, 1, 2, 1)>>,
     <<Reach(d, 1, 3, 3), Reach(d, 2, 3, 2)>>,
     <<Reach(d, 1, 4, 4)>>,
     <<Reach(d, 1, 2, 2)>>,
     <<LosingCandle(d)>>}

\* the trades a run can leave in its summary: simulate_trade on a signal of
\* either direction, made before or after the execution candles
SavedTradePool ==
    {SimulateTrade(TradeSignal(d, 20), signal_time, ExecutionCandles(shapes),
                   MaxTradeCandles) :
        <<d, signal_time, shapes>> \in
            UNION {{<<d, signal_time, shapes>> :
                        shapes \in SavedScenarios(d), signal_time \in {9, 1000}} :
                            d \in {"LONG", "SHORT"}}}

\* the weights of a strategy that was never adjusted and of one that was
WeightChoices ==
    {PerformanceWeights(1000000, 1000000, 1000000, 1000000, 1000000, 1000000, 1000000),
     PerformanceWeights(1200000, 300000, 1500000, 900000, 1100000, 850000, 1817640)}

\* a summary: its trades, and a StrategyPerformance per configuration, the
\* first configuration having made every trade
Report(trades, w) ==
    [trades |-> trades,
     strategy_performance |->
        [k \in 1..Len(RunStrategies) |->
            PerformanceEntry(StrategyCode(RunStrategies[k]), RunStrategies[k],
                             IF k = 1 THEN trades ELSE <<>>, w)]]

NoRow == [saved |-> FALSE, trades_json |-> <<>>, strategy_performance_json |-> <<>>]

InitStore ==
    /\ pc = "save"
    /\ \E n \in 0..MaxSavedTrades :
         \E trades \in [1..n -> SavedTradePool], w \in WeightChoices :
            report = Report(trades, w)
    /\ stored = NoRow
    /\ loaded = Report(<<>>, PerformanceWeights(0, 0, 0, 0, 0, 0, 0))
    /\ AggIdle
    /\ WeightIdle
    /\ TradeIdle
    /\ CandlesIdle
    /\ PerfIdle
    /\ FetchIdle
    /\ RunIdle
    /\ TasksIdle
    /\ ConfigIdle

\* save_backtest_result: the two lists are turned into JSON and the row is
\* created, or the session raises and nothing is saved
SaveBacktestResult ==
    /\ pc = "save"
    /\ \E created \in BOOLEAN :
         IF created
         THEN /\ stored' =
                    [saved |-> TRUE,
                     trades_json |->
                        [k \in 1..Len(report.trades) |-> TradeToDict(report.trades[k])],
                     strategy_performance_json |->
                        [k \in 1..Len(report.strategy_performance) |->
                            ToDict(report.strategy_performance[k])]]
              /\ pc' = "saved"
         ELSE /\ UNCHANGED stored
              /\ pc' = "not_saved"
    /\ UNCHANGED <<aggVars, wt, tradeVars, candleVars, perfVars, fetchVars, runVars,
                   taskVars, report, loaded, configVars>>

\* backtest_send_existing_pdf: the trades and the strategy performance of
\* the summary are rebuilt from the two JSON columns of the row
BacktestSendExistingPdf ==
    /\ pc = "saved"
    /\ loaded' =
          [trades |-> LoadTrades(stored.trades_json),
           strategy_performance |->
              [k \in 1..Len(stored.strategy_performance_json) |->
                  PerformanceFromDict(stored.strategy_performance_json[k])]]
    /\ pc' = "loaded"
    /\ UNCHANGED <<aggVars, wt, tradeVars, candleVars, perfVars, fetchVars, runVars,
                   taskVars, report, stored, configVars>>

NextStore == SaveBacktestResult \/ BacktestSendExistingPdf

SpecStore == InitStore /\ [][NextStore]_vars

(***************************************************************************)
(* Backtester._load_strategy_configs as run calls it.  The strategies      *)
(* table answers with its active rows or the session raises.  Weights are  *)
(* in tenths.                                                              *)
(***************************************************************************)
MaxRows == 2

\* str.lower() on the codes a row can hold
Lower(code) == IF code = "TrendFollowStrategy" THEN "trendfollowstrategy" ELSE code

\* get_strategy_class: STRATEGY_CLASS_MAP.get(code.lower()); "ensemble" maps
\* to None and an unknown code is missing
GetStrategyClass(code) ==
    LET classes == {STRATEGY_CLASS_MAP[k] : k \in 1..Len(STRATEGY_CLASS_MAP)}
        found == {name \in classes : StrategyCode(name) = Lower(code)}
    IN  IF found = {} THEN None ELSE Some(CHOOSE name \in found : TRUE)

StrategyConfig(code, name, cls, performance_weight, is_active) ==
    [code |-> code, name |-> name, cls |-> cls,
     performance_weight |-> performance_weight, is_active |-> is_active]

\* get_fallback_strategy_configs: one configuration per registered class
GetFallbackStrategyConfigs ==
    [k \in 1..Len(STRATEGY_CLASS_MAP) |->
        StrategyConfig(StrategyCode(STRATEGY_CLASS_MAP[k]), STRATEGY_CLASS_MAP[k],
                       STRATEGY_CLASS_MAP[k], 10, TRUE)]

\* get_active_strategy_configs: a configuration per row whose code has a
\* class, `performance_weight or 1.0`
RECURSIVE GetActiveStrategyConfigs(_)
GetActiveStrategyConfigs(rows) ==
    IF rows = <<>> THEN <<>>
    ELSE LET strategy == Head(rows)
             cls == GetStrategyClass(strategy.code)
             rest == GetActiveStrategyConfigs(Tail(rows))
         IN  IF cls # None
             THEN <<StrategyConfig(strategy.code, strategy.name, cls[1],
                                   IF strategy.performance_weight \in {None, Some(0)}
                                   THEN 10 ELSE strategy.performance_weight[1],
                                   strategy.is_active)>> \o rest
             ELSE rest

\* the rows the table can hold: a registered code in either spelling, the
\* ensemble, a code without a class; the weight unset, zero or set
StrategyRows ==
    {[code |-> code, name |-> "row", performance_weight |-> w, is_active |-> TRUE] :
        code \in {"trendfollowstrategy", "TrendFollowStrategy", "macdcrossoverstrategy",
                  "ensemble", "retired"},
        w \in {None, Some(0), Some(15)}}

InitConfigs ==
    /\ pc = "load_configs"
    /\ \E n \in 0..MaxRows, raises \in BOOLEAN :
         \E rows \in [1..n -> StrategyRows] :
            strategy_store = [raises |-> raises, rows |-> rows]
    /\ strategy_configs = <<>>
    /\ AggIdle
    /\ WeightIdle
    /\ TradeIdle
    /\ CandlesIdle
    /\ PerfIdle
    /\ FetchIdle
    /\ RunIdle
    /\ TasksIdle
    /\ StoreIdle

\* `await self._load_strategy_configs()` in run: the exception of the
\* session leaves run, else the configurations are those of the rows, or
\* the fallback ones when there is none
LoadStrategyConfigs ==
    /\ pc = "load_configs"
    /\ IF strategy_store.raises
       THEN /\ pc' = "raised"
            /\ UNCHANGED strategy_configs
       ELSE /\ \E configs \in {GetActiveStrategyConfigs(strategy_store.rows)} :
                 strategy_configs' = IF configs = <<>> THEN GetFallbackStrategyConfigs
                                     ELSE configs
            /\ pc' = "configured"
    /\ UNCHANGED <<aggVars, wt, tradeVars, candleVars, perfVars, fetchVars, runVars,
                   taskVars, storeVars, strategy_store>>

NextConfigs == LoadStrategyConfigs

SpecConfigs == InitConfigs /\ [][NextConfigs]_vars

(***************************************************************************)
(* The statistics of one strategy and the weight suggested from them       *)
(* (the loop over strategy_configs at the end of run).  The profit factor  *)
(* is kept in hundredths and the win rate in whole percents, the units of  *)
(* CalculatePerformanceWeight.                                             *)
(***************************************************************************)
\* variant: without a loss the profit factor is the gross profit itself
StrategyStatsGrossProfit(trades) ==
    LET st == CalculateStrategyStats(trades)
        gross_profit == ProfitsOfSign(trades, 1).sum
        gross_loss == 0 - ProfitsOfSign(trades, -1).sum
        total_closed == st.wins + st.losses + st.partial_wins
    IN  Stats(st.total_signals,
              IF gross_loss > 0 THEN (100 * gross_profit) \div gross_loss
              ELSE 100 * gross_profit,
              IF total_closed > 0
              THEN (100 * (st.wins + st.partial_wins)) \div total_closed ELSE 0)

\* the keys of _calculate_strategy_stats that _calculate_performance_weight reads
StrategyStats(trades) ==
    LET st == CalculateStrategyStats(trades)
        gross_profit == ProfitsOfSign(trades, 1).sum
        gross_loss == 0 - ProfitsOfSign(trades, -1).sum
        total_closed == st.wins + st.losses + st.partial_wins
    IN  Stats(st.total_signals,
              IF gross_loss > 0 THEN (100 * gross_profit) \div gross_loss ELSE 0,
              IF total_closed > 0
              THEN (100 * (st.wins + st.partial_wins)) \div total_closed ELSE 0)

\* the strategy whose statistics are taken
StatsCode == StrategyCode(RunStrategies[1])

\* up to MaxSavedTrades trades of any outcome, or one trade repeated up to
\* MaxTotalSignals times
StrategyTradeLists ==
    UNION {[1..n -> SavedTradePool] : n \in 0..MaxSavedTrades}
    \cup {[k \in 1..n |-> t] : n \in (MaxTotalSignals - 2)..MaxTotalSignals,
                               t \in SavedTradePool}

InitStats ==
    /\ pc = "strategy_stats"
    /\ \E trades \in StrategyTradeLists :
         run = [RunLocals(0) EXCEPT !.strategy_trades[StatsCode] = trades]
    /\ stats = NoStats
    /\ suggested_weight = 0
    /\ feed = NoFeed
    /\ signal_timeframe = "1m"
    /\ self_execution_candles = <<>>
    /\ self_signal_candles = <<>>
    /\ summary = Summary(<<>>)
    /\ verdicts = <<>>
    /\ AggIdle
    /\ WeightIdle
    /\ TradeIdle
    /\ CandlesIdle
    /\ FetchIdle
    /\ TasksIdle
    /\ StoreIdle
    /\ ConfigIdle

\* stats = self._calculate_strategy_stats(trades)
CalculateStrategyStatsCall ==
    /\ pc = "strategy_stats"
    /\ stats' = StrategyStats(run.strategy_trades[StatsCode])
    /\ pc' = "performance_weight"
    /\ UNCHANGED <<aggVars, wt, tradeVars, candleVars, suggested_weight, fetchVars,
                   runVars, taskVars, storeVars, configVars>>

NextStats == CalculateStrategyStatsCall \/ CalculatePerformanceWeightCall

SpecStats == InitStats /\ [][NextStats]_vars

(***************************************************************************)
(* Properties of aggregate().  They are stated on the inputs (results,     *)
(* cfg) and on the returned signal.                                        *)
(***************************************************************************)
Returned == pc = "returned"

\* indices of the results that count as a vote for direction d
Qualifying(d) ==
    {i \in 1..Len(results) :
        /\ results[i].direction = d
        /\ results[i].confidence >= cfg.min_vote_confidence}

NLong == Cardinality(Qualifying("LONG"))
NShort == Cardinality(Qualifying("SHORT"))

\* min_votes as the claims state it
StatedMinVotes ==
    LET x == Len(results) * cfg.min_vote_ratio
        ceil == IF x % 100 = 0 THEN x \div 100 ELSE x \div 100 + 1
    IN  IF ceil < 1 THEN 1 ELSE ceil

\* the consensus scores of the returned signal
ConsensusLong ==
    Consensus(signal.long_votes, StatedMinVotes, signal.weighted_long_confidence)
ConsensusShort ==
    Consensus(signal.short_votes, StatedMinVotes, signal.weighted_short_confidence)

C2_AverageFloor ==
    Returned =>
        /\ signal.direction = "LONG"
             => RatGeInt(signal.weighted_long_confidence, MIN_AVG_CONFIDENCE)
        /\ signal.direction = "SHORT"
             => RatGeInt(signal.weighted_short_confidence, MIN_AVG_CONFIDENCE)

RawProduct == wt.base * wt.perf * wt.regime * wt.stability * wt.corr

\* C5: whatever the five factors are, the weight aggregate() uses and the
\* actual_weight Backtester.run records lie in [0.1, 3.0].
C5_ActualWeightRange ==
    pc = "weighted" =>
        /\ wt.actual >= 100000 /\ wt.actual <= 3000000
        /\ wt.recorded >= 100000 /\ wt.recorded <= 3000000

\* a product above 3.0 (1.2 x 2.5 x 1.15 = 3.45) is cut to 3.0
C5_Witness ==
    /\ pc = "weighted"
    /\ wt.base = 12 /\ wt.perf = 25 /\ wt.regime = 115
    /\ wt.stability = 10 /\ wt.corr = 10
    /\ RawProduct > 3000000
    /\ wt.actual = 3000000 /\ wt.recorded = 3000000

(***************************************************************************)
(* Properties of run() and run_all_strategies().                           *)
(***************************************************************************)
StrategiesRan == pc \in {"aggregate", "returned", "raised"}

\* C7 (as stated): run() never raises, whatever the candle list and the
\* strategies are, and with zero strategies it returns NEUTRAL, confidence 0.
C7_RunNeverRaises ==
    /\ pc # "raised"
    /\ (Returned /\ Len(outcomes) = 0)
         => (signal.direction = "NEUTRAL" /\ RatEqInt(signal.confidence, 0))

\* C8: run_all_strategies returns one result per configured strategy, in
\* order; a strategy that raises yields NEUTRAL / 0 / 0 under its class
\* name, and the strategies after it are still evaluated.
C8_OneResultPerStrategy ==
    StrategiesRan =>
        /\ Len(results) = Len(outcomes)
        /\ \A i \in 1..Len(outcomes) :
             /\ i \in DOMAIN results
             /\ results[i].name = STRATEGY_CLASS_MAP[i]
             /\ outcomes[i].raises =>
                  /\ results[i].direction = "NEUTRAL"
                  /\ results[i].confidence = 0
                  /\ results[i].weight = 0
             /\ ~outcomes[i].raises =>
                  /\ results[i].direction = outcomes[i].direction
                  /\ results[i].weight = ClassWeight(STRATEGY_CLASS_MAP[i])

\* a strategy raises and the one after it still delivers its LONG vote
C8_Witness ==
    /\ StrategiesRan
    /\ \E i \in 1..(Len(outcomes) - 1) :
         /\ outcomes[i].raises
         /\ results[i] = StrategyResult("NEUTRAL", 0, 0, STRATEGY_CLASS_MAP[i])
         /\ ~outcomes[i + 1].raises
         /\ results[i + 1].direction = "LONG"
         /\ results[i + 1].name = STRATEGY_CLASS_MAP[i + 1]

\* C9 (as stated): every result in the strategy_results of a signal run()
\* returns has confidence in [5, 95] and a direction of the three.
C9_Original ==
    Returned =>
        \A i \in 1..Len(signal.strategy_results) :
            /\ signal.strategy_results[i].confidence >= 5
            /\ signal.strategy_results[i].confidence <= 95
            /\ signal.strategy_results[i].direction \in Directions

\* C9 (amended): the results of strategies that ran have confidence in
\* [5, 95], NEUTRAL votes included; a result substituted for a strategy that
\* raised has confidence 0; every direction is one of the three.
C9_ClampedUnlessSubstituted ==
    Returned =>
        /\ Len(signal.strategy_results) = Len(outcomes)
        /\ \A i \in 1..Len(outcomes) :
             /\ i \in DOMAIN signal.strategy_results
             /\ signal.strategy_results[i].direction \in Directions
             /\ outcomes[i].raises => signal.strategy_results[i].confidence = 0
             /\ ~outcomes[i].raises =>
                  /\ signal.strategy_results[i].confidence >= 5
                  /\ signal.strategy_results[i].confidence <= 95

\* a NEUTRAL vote lifted to 5, a raw 120 cut to 95 and a substituted result
C9_Witness ==
    /\ Returned
    /\ \E i, j, k \in 1..Len(outcomes) :
         /\ ~outcomes[i].raises /\ outcomes[i].direction = "NEUTRAL"
         /\ signal.strategy_results[i].confidence = 5
         /\ ~outcomes[j].raises /\ outcomes[j].confidence = 120
         /\ signal.strategy_results[j].confidence = 95
         /\ outcomes[k].raises
         /\ signal.strategy_results[k].confidence = 0


(***************************************************************************)
(* Properties of simulate_trade.                                           *)
(***************************************************************************)
Simulated == pc = "simulated"

\* the candles the simulation looks at
Examined == FutureCandles(sim.execution_candles, sim.signal_time, sim.max_candles)

\* the original stop is reached by examined candle i
OriginalStopAt(i) ==
    StopBreached(trade, Examined[i], OrZero(sim.signal.stop_loss))

\* the first target is reached by examined candle i
FirstTargetAt(i) ==
    TargetReached(trade, Examined[i], OrZero(sim.signal.take_profit_1))

\* examined candle i breaches the stop and no earlier candle reached the
\* stop or the first target
StopBeforeFirstTarget(i) ==
    /\ OriginalStopAt(i)
    /\ \A j \in 1..(i - 1) : ~OriginalStopAt(j) /\ ~FirstTargetAt(j)

\* C10: when the stop is breached on a candle before the first target was
\* ever hit, the result is SL, the stop tier is ORIGINAL, the exit price is
\* the stop price, and the profit is the whole position closed at the stop:
\* (stop - entry) / entry * 100 for LONG, (entry - stop) / entry * 100 for
\* SHORT (here multiplied by entry_price).
C10_StopBeforeTp1 ==
    Simulated =>
        \A i \in 1..Len(Examined) :
            StopBeforeFirstTarget(i) =>
                /\ trade.result = "SL"
                /\ trade.sl_hit /\ ~trade.tp1_hit
                /\ trade.sl_hit_at = Some("ORIGINAL")
                /\ trade.exit_price = Some(trade.stop_loss)
                /\ trade.exit_time = Some(Examined[i].close_time)
                /\ trade.total_profit_percent =
                        IF trade.direction = "LONG"
                        THEN (trade.stop_loss - trade.entry_price) * 100
                        ELSE (trade.entry_price - trade.stop_loss) * 100

\* a SHORT trade stopped out on its second examined candle, which also
\* reaches the first target
C10_Witness ==
    /\ Simulated
    /\ trade.direction = "SHORT"
    /\ Len(Examined) = 2
    /\ StopBeforeFirstTarget(2)
    /\ FirstTargetAt(2)
    /\ trade.result = "SL"
    /\ trade.total_profit_percent = -3000

\* the stop at the entry price is reached by examined candle i
EntryTouchedAt(i) ==
    StopBreached(trade, Examined[i], sim.signal.entry_price)

\* the second target is reached by examined candle i
SecondTargetAt(i) ==
    TargetReached(trade, Examined[i], OrZero(sim.signal.take_profit_2))

\* examined candle i is the first to hit the first target (the original stop
\* untouched up to and including it) and does not reach the second target
FirstTargetOnlyAt(i) ==
    /\ FirstTargetAt(i) /\ ~SecondTargetAt(i)
    /\ \A k \in 1..i : ~OriginalStopAt(k)
    /\ \A k \in 1..(i - 1) : ~FirstTargetAt(k)

\* examined candle j > i touches the entry, no candle between i and j having
\* touched the entry or reached the second target
EntryTouchedAfter(i, j) ==
    /\ i < j
    /\ EntryTouchedAt(j)
    /\ \A k \in (i + 1)..(j - 1) : ~EntryTouchedAt(k) /\ ~SecondTargetAt(k)

\* C11: a candle reaches TP1 (not TP2) and a later candle touches the entry
\* price without TP2 having been reached in between: the result is PARTIAL,
\* the stop tier BREAKEVEN, the exit price the entry price, and the profit is
\* the TP1 tranche alone, 0.40 x |TP1 - entry| / entry x 100 (here multiplied
\* by entry_price); the remaining 60% adds nothing.
C11_BreakevenAfterTp1 ==
    Simulated =>
        \A i, j \in 1..Len(Examined) :
            (FirstTargetOnlyAt(i) /\ EntryTouchedAfter(i, j)) =>
                /\ trade.result = "PARTIAL"
                /\ trade.tp1_hit /\ ~trade.tp2_hit /\ ~trade.tp3_hit /\ trade.sl_hit
                /\ trade.sl_hit_at = Some("BREAKEVEN")
                /\ trade.exit_price = Some(trade.entry_price)
                /\ trade.exit_time = Some(Examined[j].close_time)
                /\ trade.total_profit_percent =
                        TP1_PERCENT * (IF trade.take_profit_1 >= trade.entry_price
                                       THEN trade.take_profit_1 - trade.entry_price
                                       ELSE trade.entry_price - trade.take_profit_1)
                /\ RemainderProfit(trade) = 0

\* a LONG trade: TP1 on the first examined candle, closing at the low of the
\* candle that also dips to the entry, stopped at breakeven on the second
C11_Witness ==
    /\ Simulated
    /\ trade.direction = "LONG"
    /\ Len(Examined) = 2
    /\ FirstTargetOnlyAt(1) /\ EntryTouchedAt(1)
    /\ EntryTouchedAfter(1, 2)
    /\ trade.result = "PARTIAL"
    /\ trade.total_profit_percent = 1200

\* the share of the position credited by calculate_profit, in percent
Credited(t) ==
    (IF t.tp1_hit THEN TP1_PERCENT ELSE 0)
    + (IF t.tp2_hit THEN TP2_PERCENT ELSE 0)
    + (IF t.tp3_hit THEN TP3_PERCENT ELSE 0)
    + (IF t.sl_hit THEN Remaining(t) ELSE 0)

\* C12: for every trade simulate_trade returns, the fractions credited by
\* calculate_profit (40% if tp1_hit, 30% if tp2_hit, 30% if tp3_hit, plus the
\* remainder when sl_hit) sum to at most 100% of the position, and the
\* remainder is never negative.
C12_TrancheAllocation ==
    Simulated => (Credited(trade) <= 100 /\ Remaining(trade) >= 0)

\* a trade stopped after two targets: 40 + 30 + the remaining 30
C12_Witness ==
    /\ Simulated
    /\ trade.sl_hit /\ trade.tp1_hit /\ trade.tp2_hit
    /\ Remaining(trade) = 30
    /\ Credited(trade) = 100

(***************************************************************************)
(* Properties of aggregate_candles.                                        *)
(***************************************************************************)
Aggregated == pc = "aggregated"

\* r = target_minutes / source_minutes, a whole number on a one-minute source
StatedRatio ==
    TIMEFRAME_MINUTES[ac.target_tf] \div TIMEFRAME_MINUTES[GetSmallestExecutionTf(ac.target_tf)]

\* input candles [k r, (k+1) r) of output candle k (k from 0), as indices from 1
Group(k) == (k * StatedRatio + 1)..((k + 1) * StatedRatio)

\* C13: with ratio r = target_minutes / source_minutes > 1, aggregate_candles
\* returns exactly floor(N / r) candles for N input candles; output candle k
\* covers input candles [k r, (k+1) r) with open_time and open of the first,
\* close and close_time of the last, high = max of highs, low = min of lows,
\* volume = sum of volumes; a trailing group shorter than r is dropped.
C13_AggregateCandles ==
    (Aggregated /\ StatedRatio > 1) =>
        /\ Len(aggregated) = Len(ac.candles_small) \div StatedRatio
        /\ \A k \in 0..(Len(aggregated) - 1) :
            LET out == aggregated[k + 1]
                in == ac.candles_small
                first == k * StatedRatio + 1
                last == (k + 1) * StatedRatio
            IN  /\ last <= Len(in)
                /\ out.open_time = in[first].open_time
                /\ out.open = in[first].open
                /\ out.close = in[last].close
                /\ out.close_time = in[last].close_time
                /\ \A i \in Group(k) : in[i].high <= out.high /\ in[i].low >= out.low
                /\ \E i \in Group(k) : in[i].high = out.high
                /\ \E i \in Group(k) : in[i].low = out.low
                /\ out.volume = SeqSum([i \in 1..StatedRatio |-> in[first + i - 1].volume])

\* seven one-minute candles into three-minute ones: two candles out, the
\* seventh dropped, the first output's high coming from its middle candle
C13_Witness ==
    /\ Aggregated
    /\ ac.target_tf = "3m"
    /\ Len(ac.candles_small) = 7
    /\ Len(aggregated) = 2
    /\ aggregated[1].high = ac.candles_small[2].high
    /\ aggregated[1].high > ac.candles_small[1].high
    /\ aggregated[1].high > ac.candles_small[3].high
    /\ aggregated[2].volume = 6

(***************************************************************************)
(* Properties of _calculate_performance_weight.                            *)
(***************************************************************************)
WeightReturned == pc = "weight_returned"

\* w: the raw score clamped to [0.3, 2.5], in millionths
ClampedScore == ClampPerformance(PerformanceRaw(stats.profit_factor, stats.win_rate))

\* 30 x (1 + min(1, total_signals / 30) x (w - 1)), in millionths
StatedWeight30 ==
    30 * 1000000
    + (IF stats.total_signals >= 30 THEN 30 ELSE stats.total_signals) * (ClampedScore - 1000000)

\* x (ten-thousandths) is a nearest four-decimal value of num / den (millionths)
NearestFourDecimals(x, num, den) ==
    LET d == x * 100 * den - num
    IN  2 * (IF d >= 0 THEN d ELSE 0 - d) <= 100 * den

\* C20 (as stated): the function returns exactly 1.0 when total_signals = 0
\* and otherwise exactly 1 + min(1, total_signals / 30) x (w - 1), w being
\* the raw score clamped to [0.3, 2.5]; the result equals w from 30 signals on.
C20_Original ==
    WeightReturned =>
        /\ stats.total_signals = 0 => suggested_weight = 10000
        /\ stats.total_signals > 0 => suggested_weight * 3000 = StatedWeight30
        /\ stats.total_signals >= 30 => suggested_weight * 100 = ClampedScore

\* C20 (amended): the function returns exactly 1.0 when total_signals = 0 and
\* otherwise 1 + min(1, total_signals / 30) x (w - 1) rounded to four
\* decimals; the result lies in [0.3, 2.5], moves monotonically from 1.0
\* toward w as total_signals grows, and equals w rounded to four decimals
\* for total_signals >= 30.
C20_RoundedShrinkage ==
    WeightReturned =>
        LET next == CalculatePerformanceWeight(
                        [stats EXCEPT !.total_signals = stats.total_signals + 1])
        IN  /\ stats.total_signals = 0 => suggested_weight = 10000
            /\ stats.total_signals > 0
                 => NearestFourDecimals(suggested_weight, StatedWeight30, 30)
            /\ suggested_weight >= 3000 /\ suggested_weight <= 25000
            /\ ClampedScore >= 1000000
                 => /\ 10000 <= suggested_weight /\ suggested_weight <= next
                    /\ next * 100 <= ClampedScore + 50
            /\ ClampedScore <= 1000000
                 => /\ 10000 >= suggested_weight /\ suggested_weight >= next
                    /\ next * 100 >= ClampedScore - 50
            /\ stats.total_signals >= 30
                 => NearestFourDecimals(suggested_weight, ClampedScore, 1)

\* ten signals of a strategy with profit factor 1.23 and win rate 67%: the
\* shrunk weight has more than four decimals and is returned rounded
C20_Witness ==
    /\ WeightReturned
    /\ stats = Stats(10, 123, 67)
    /\ suggested_weight * 3000 # StatedWeight30
    /\ NearestFourDecimals(suggested_weight, StatedWeight30, 30)
    /\ suggested_weight > 10000 /\ suggested_weight * 100 < ClampedScore

(***************************************************************************)
(* Properties of fetch_data_by_chunks.                                     *)
(***************************************************************************)
Fetched == pc = "fetched"

\* the months of the requested range
RequestedMonths == {fetch.months[k] : k \in 1..Len(fetch.months)}

\* the month has ended by the clock
Closed(m) == ~(MonthEnd(m) > now)

\* the month's cache file existed with at least one candle before the call
WasCached(m) == cache0[m].exists /\ cache0[m].readable /\ cache0[m].rows # <<>>

\* the month the clock stands in
IsCurrent(m) == MonthStart(m) <= now /\ now < MonthEnd(m)

\* C18 (as stated): a closed month whose cache file exists with at least one
\* candle is served without a network request and its file is left
\* unchanged; the current, not yet closed month is always fetched again and
\* its cache file rewritten.
C18_Original ==
    Fetched =>
        \A m \in RequestedMonths :
            /\ (Closed(m) /\ WasCached(m))
                 => (m \notin requested /\ m \notin written /\ cache[m] = cache0[m])
            /\ IsCurrent(m) => (m \in requested /\ m \in written)

\* C18 (amended): a closed month whose cache file exists with at least one
\* candle is served without a network request and its file is left
\* unchanged; the current, not yet closed month is always requested again,
\* and its cache file is rewritten, with the candles obtained, exactly when
\* the fetch obtained at least one candle; otherwise the file is left as it
\* was.
C18_CacheBeforeNetwork ==
    Fetched =>
        \A m \in RequestedMonths :
            /\ (Closed(m) /\ WasCached(m))
                 => (m \notin requested /\ m \notin written /\ cache[m] = cache0[m])
            /\ IsCurrent(m) =>
                 /\ m \in requested
                 /\ m \in written <=> fetch.obtained[m] # <<>>
                 /\ m \in written => cache[m] = CacheFile(TRUE, TRUE, fetch.obtained[m])
                 /\ m \notin written => cache[m] = cache0[m]

\* two months requested, the first closed and cached, the second current
\* and cached: the first is served from its file, the second is requested
\* again, its request fails and its file stays
C18_Witness ==
    /\ Fetched
    /\ RequestedMonths = {1, 2}
    /\ Closed(1) /\ WasCached(1) /\ 1 \notin requested
    /\ IsCurrent(2) /\ WasCached(2) /\ 2 \in requested /\ 2 \notin written
    /\ cache[2] = cache0[2]
    /\ Len(fetch.result) = CandlesPerMonth

\* C19: a fetch failure (HTTP error status or request exception) for one
\* month never aborts the run: every later month of the range is still
\* processed and fetch_data_by_chunks returns.
C19_FetchCompletes == <>Fetched

(***************************************************************************)
(* Properties of Backtester.run.                                           *)
(***************************************************************************)
\* the exchange holds no kline of the range, or klines for fewer than 100
\* signal candles
ShortFeed ==
    feed.n = 0 \/ feed.n \div Ratio(signal_timeframe) < MIN_SIGNAL_CANDLES

\* the callback is one that can raise
CallbackCanRaise == TRUE \in CallbackRaises(progress_callback)

Streams == {"ensemble"} \cup RunCodes

\* the trades recorded on a stream, its flag and its close index
StreamTrades(r, s, stream) ==
    IF stream = "ensemble" THEN s.trades ELSE r.strategy_trades[stream]

StreamOpen(r, stream) ==
    IF stream = "ensemble" THEN r.position_open ELSE r.strategy_position_open[stream]

StreamCloseCandle(r, stream) ==
    IF stream = "ensemble" THEN r.position_close_candle
    ELSE r.strategy_close_candle[stream]

\* each trade begins when the one before it has ended
TradesInOrder(trades) ==
    \A k \in 1..(Len(trades) - 1) :
        /\ trades[k].exit_time # None
        /\ trades[k + 1].signal_time >= trades[k].exit_time[1]

\* the step at index run.i records a trade on the stream
OpensTrade(stream) ==
    Len(StreamTrades(run', summary', stream)) = Len(StreamTrades(run, summary, stream)) + 1

\* C15: on every stream (the ensemble's and each strategy's) positions never
\* overlap: a trade is opened at index i only if i is at or past the close
\* index computed for the previous trade of the stream, and each trade's
\* signal time is not earlier than the exit time of the previous trade of
\* the stream.
C15_NoOverlap ==
    /\ [](\A stream \in Streams : TradesInOrder(StreamTrades(run, summary, stream)))
    /\ [][\A stream \in Streams :
            (OpensTrade(stream) /\ StreamTrades(run, summary, stream) # <<>>)
                => run.i >= StreamCloseCandle(run, stream)]_vars

\* the ensemble and a strategy have each traded twice, the second trade of
\* the ensemble opened at the very index the first was closed at
C15_Witness ==
    /\ Len(summary.trades) >= 2
    /\ \E code \in RunCodes : Len(run.strategy_trades[code]) >= 2
    /\ summary.trades[2].signal_time > summary.trades[1].exit_time[1]
    /\ summary.trades[2].signal_time - summary.trades[1].exit_time[1]
          <= 60000 * Ratio(signal_timeframe)

\* the result of strategy k on signal_candles[:i + 1], i the index the step
\* handles
OwnResult(k) == RunStrategy(RunStrategies[k], verdicts'[k])

\* C16: at every index i >= 100 at which a strategy's own result is
\* non-NEUTRAL (of a confidence that reaches the threshold, the ATR being
\* positive) and the strategy's stream has no open position, a trade is
\* simulated and recorded on that stream, whether or not the ensemble
\* stream has an open position.
C16_StreamsGateIndependently ==
    [][(pc = "scan" /\ pc' # "raised") =>
         \A k \in 1..Len(RunStrategies) :
            ( /\ OwnResult(k).direction # "NEUTRAL"
              /\ OwnResult(k).confidence >= RunCfg.threshold
              /\ ComputeAtr(HistoricalData(self_signal_candles, run.i, feed)) > 0
              /\ ~StreamBusy(StreamOpen(run, StrategyCode(RunStrategies[k])), run.i,
                             StreamCloseCandle(run, StrategyCode(RunStrategies[k]))) )
            => OpensTrade(StrategyCode(RunStrategies[k]))]_vars

\* C17: an exception raised by progress_callback at any milestone never
\* propagates out of run.
C17_CallbackNeverPropagates == CallbackCanRaise => pc # "raised"

(***************************************************************************)
(* Properties of simulate_trade: the order of the tests on a candle and    *)
(* the terminal states.                                                    *)
(***************************************************************************)
\* the loop state when examined candle i starts
Before(i) ==
    CandleLoop(LoopState(TradeResult(sim.signal_time, sim.signal),
                         OrZero(sim.signal.stop_loss), "ORIGINAL", FALSE),
               SubSeq(Examined, 1, i - 1), 1)

\* examined candle i is looked at (the loop was not left before it) and
\* reaches the stop that was in force when it started
BreachAt(i) ==
    /\ ~Before(i).broke
    /\ StopBreached(trade, Examined[i], Before(i).current_sl)

\* a target is hit on examined candle i and the stop it leaves behind lies
\* within that candle's range
RelocatedInto(i) ==
    /\ ~Before(i).broke
    /\ ~BreachAt(i)
    /\ Before(i + 1).current_sl # Before(i).current_sl
    /\ StopBreached(trade, Examined[i], Before(i + 1).current_sl)

\* the trade ended by a stop on examined candle i
StoppedAt(i) ==
    trade.sl_hit /\ trade.exit_time = Some(Examined[i].close_time)

\* the target flags are those the loop state holds
SameTargets(t, u) ==
    t.tp1_hit = u.tp1_hit /\ t.tp2_hit = u.tp2_hit /\ t.tp3_hit = u.tp3_hit

\* C23: on every candle the stop is tested before any target, against the
\* stop level in force when the candle started: a candle that reaches that
\* stop ends the trade on that candle at that stop and sets no further
\* target flag, whatever targets its range reaches; a stop moved by a target
\* hit on a candle is not tested on that candle.
C23_StopFirstOnEveryCandle ==
    Simulated =>
        \A i \in 1..Len(Examined) :
            /\ BreachAt(i) =>
                  /\ StoppedAt(i)
                  /\ trade.exit_price = Some(Before(i).current_sl)
                  /\ trade.sl_hit_at = Some(Before(i).current_sl_type)
                  /\ SameTargets(trade, Before(i).trade)
            /\ RelocatedInto(i) => ~StoppedAt(i)

\* a LONG trade: the first candle runs from the entry to TP1 (the stop moves
\* to the entry, which the candle touches, and the trade goes on), the second
\* runs from the entry to TP2 and ends the trade at breakeven, TP2 unset
C23_Witness ==
    /\ Simulated
    /\ trade.direction = "LONG"
    /\ Len(Examined) = 2
    /\ RelocatedInto(1)
    /\ BreachAt(2)
    /\ SecondTargetAt(2)
    /\ ~trade.tp2_hit
    /\ trade.sl_hit_at = Some("BREAKEVEN")

\* |target - entry|, the move gk of the claims multiplied by entry / 100
Move(t, target) ==
    IF target >= t.entry_price THEN target - t.entry_price ELSE t.entry_price - target

\* TP2 was hit before examined candle i, which reaches the TP1 price
BreachAfterTp2(i) ==
    /\ ~Before(i).broke
    /\ Before(i).trade.tp2_hit
    /\ StopBreached(trade, Examined[i], trade.take_profit_1)

\* C24: after TP2 is hit the stop sits at the TP1 price: a later breach ends
\* the trade with result PARTIAL, sl_hit_at TP1, exit_price = take_profit_1
\* and total_profit_percent = 0.40 x g1 + 0.30 x g2 + 0.30 x g1, every
\* tranche measured from the entry price (here multiplied by entry_price).
C24_StopAtTp1AfterTp2 ==
    Simulated =>
        \A i \in 1..Len(Examined) :
            /\ (~Before(i).broke /\ Before(i).trade.tp2_hit)
                    => (Before(i).current_sl = trade.take_profit_1
                        /\ Before(i).current_sl_type = "TP1")
            /\ BreachAfterTp2(i) =>
                  /\ trade.result = "PARTIAL"
                  /\ trade.sl_hit /\ trade.tp1_hit /\ trade.tp2_hit /\ ~trade.tp3_hit
                  /\ trade.sl_hit_at = Some("TP1")
                  /\ trade.exit_price = Some(trade.take_profit_1)
                  /\ trade.exit_time = Some(Examined[i].close_time)
                  /\ trade.total_profit_percent =
                          TP1_PERCENT * Move(trade, trade.take_profit_1)
                          + TP2_PERCENT * Move(trade, trade.take_profit_2)
                          + TP3_PERCENT * Move(trade, trade.take_profit_1)

\* a SHORT trade: TP1 and TP2 on the first candle, back to TP1 on the second
C24_Witness ==
    /\ Simulated
    /\ trade.direction = "SHORT"
    /\ Len(Examined) = 2
    /\ BreachAfterTp2(2)
    /\ trade.result = "PARTIAL"
    /\ trade.total_profit_percent = 3900

\* examined candle i is looked at, leaves the stop alone and reaches TP3
ThirdTargetAt(i) ==
    /\ ~Before(i).broke
    /\ ~BreachAt(i)
    /\ TargetReached(trade, Examined[i], trade.take_profit_3)

\* C25: TP3 is hit only after TP2 and TP2 only after TP1 (possibly all on
\* one candle); when TP3 is hit the trade ends on that candle with result
\* TP3, sl_hit false, exit_price = take_profit_3 and total_profit_percent =
\* 0.40 x g1 + 0.30 x g2 + 0.30 x g3 (here multiplied by entry_price), and no
\* later candle is examined.
C25_TargetsInOrder ==
    Simulated =>
        /\ trade.tp3_hit => trade.tp2_hit
        /\ trade.tp2_hit => trade.tp1_hit
        /\ \A i \in 1..Len(Examined) :
              /\ Before(i).trade.tp3_hit => Before(i).trade.tp2_hit
              /\ Before(i).trade.tp2_hit => Before(i).trade.tp1_hit
              /\ ThirdTargetAt(i) =>
                    /\ trade.tp3_hit
                    /\ trade.exit_time = Some(Examined[i].close_time)
                    /\ \A j \in (i + 1)..(Len(Examined) + 1) :
                          Before(j) = Before(i + 1)
        /\ trade.tp3_hit =>
              /\ trade.result = "TP3"
              /\ ~trade.sl_hit /\ trade.sl_hit_at = None
              /\ trade.exit_price = Some(trade.take_profit_3)
              /\ \E i \in 1..Len(Examined) : ThirdTargetAt(i)
              /\ trade.total_profit_percent =
                      TP1_PERCENT * Move(trade, trade.take_profit_1)
                      + TP2_PERCENT * Move(trade, trade.take_profit_2)
                      + TP3_PERCENT * Move(trade, trade.take_profit_3)

\* a LONG trade: one candle runs from the entry through the three targets,
\* and the candle after it, which falls to the original stop, is not examined
C25_Witness ==
    /\ Simulated
    /\ trade.direction = "LONG"
    /\ Len(Examined) = 2
    /\ ~Before(1).trade.tp1_hit
    /\ ThirdTargetAt(1)
    /\ OriginalStopAt(2)
    /\ trade.result = "TP3"
    /\ trade.total_profit_percent = 5700

\* the loop ran through every examined candle without `break`
Exhausted == Len(Examined) > 0 /\ ~Before(Len(Examined) + 1).broke

\* the last candle examined
LastCandle == Examined[Len(Examined)]

\* C26: when the at most max_candles future candles are exhausted with no
\* stop breach and no TP3, the result is PARTIAL with exit_price = the last
\* candle's close if TP1 was hit, otherwise TIMEOUT with exit_price = last
\* close and total_profit_percent = (last close - entry) / entry x 100 for
\* LONG, reversed for SHORT (here multiplied by entry_price), which is not
\* what calculate_profit gives; with no future candle at all the result is
\* TIMEOUT with exit_time unset and profit 0.
C26_CandlesExhausted ==
    Simulated =>
        /\ Len(Examined) <= sim.max_candles
        /\ Len(Examined) = 0 =>
              /\ trade.result = "TIMEOUT"
              /\ trade.exit_time = None /\ trade.exit_price = None
              /\ trade.total_profit_percent = 0
        /\ Exhausted =>
              /\ trade.exit_time = Some(LastCandle.close_time)
              /\ trade.exit_price = Some(LastCandle.close)
              /\ ~trade.sl_hit /\ ~trade.tp3_hit
              /\ IF trade.tp1_hit THEN trade.result = "PARTIAL"
                 ELSE /\ trade.result = "TIMEOUT"
                      /\ trade.total_profit_percent =
                            100 * (IF trade.direction = "LONG"
                                   THEN LastCandle.close - trade.entry_price
                                   ELSE trade.entry_price - LastCandle.close)

\* a LONG trade timed out below its entry after max_candles candles, a
\* further candle being left out
C26_Witness ==
    /\ Simulated
    /\ trade.direction = "LONG"
    /\ Len(Examined) = sim.max_candles
    /\ Len(FutureCandles(sim.execution_candles, sim.signal_time,
                         Len(sim.execution_candles))) > sim.max_candles
    /\ Exhausted
    /\ trade.result = "TIMEOUT"
    /\ trade.total_profit_percent < 0
    /\ CalculateProfit(trade) = 0

\* the profit of a position all of which is closed: the hit targets at their
\* prices, what is left at the recorded exit price (multiplied by entry_price)
WholePositionProfit(t) ==
    (IF t.tp1_hit THEN TP1_PERCENT * Gain(t, t.take_profit_1) ELSE 0)
    + (IF t.tp2_hit THEN TP2_PERCENT * Gain(t, t.take_profit_2) ELSE 0)
    + (IF t.tp3_hit THEN TP3_PERCENT * Gain(t, t.take_profit_3) ELSE 0)
    + Remaining(t) * Gain(t, t.exit_price[1])

\* C27: for every trade that has ended, total_profit_percent accounts for
\* the whole position: it is the sum, over tranches that make up 100% of the
\* position, of fraction x signed (tranche exit price - entry) / entry x 100,
\* the hit targets leaving at their target price and the remainder at the
\* recorded exit_price; for SL, TP3, TIMEOUT and PARTIAL alike.
C27_WholePositionAccounted ==
    (Simulated /\ trade.exit_price # None)
        => trade.total_profit_percent = WholePositionProfit(trade)

\* C28: simulate_trade returns with result among SL, TP1, TP2, TP3, PARTIAL,
\* TIMEOUT and with consistent flags: tp3_hit implies tp2_hit implies
\* tp1_hit; result = SL iff sl_hit and not tp1_hit; result = TP3 iff tp3_hit
\* (then not sl_hit); result = PARTIAL implies tp1_hit and not tp3_hit;
\* result = TIMEOUT implies no flag is set; TP1 and TP2 are never produced.
C28_ResultAndFlags ==
    Simulated =>
        /\ trade.result \in {"SL", "TP1", "TP2", "TP3", "PARTIAL", "TIMEOUT"}
        /\ trade.result \notin {"TP1", "TP2"}
        /\ trade.tp3_hit => trade.tp2_hit
        /\ trade.tp2_hit => trade.tp1_hit
        /\ trade.result = "SL" <=> (trade.sl_hit /\ ~trade.tp1_hit)
        /\ trade.result = "TP3" <=> trade.tp3_hit
        /\ trade.tp3_hit => ~trade.sl_hit
        /\ trade.result = "PARTIAL" => (trade.tp1_hit /\ ~trade.tp3_hit)
        /\ trade.result = "TIMEOUT" =>
              (~trade.tp1_hit /\ ~trade.tp2_hit /\ ~trade.tp3_hit /\ ~trade.sl_hit)

\* a trade that reached TP3 on its first candle, the next candle falling to
\* the stop left at TP1
C28_Witness ==
    /\ Simulated
    /\ Len(Examined) = 2
    /\ trade.result = "TP3"
    /\ trade.tp1_hit /\ trade.tp2_hit /\ trade.tp3_hit /\ ~trade.sl_hit
    /\ trade.exit_time = Some(Examined[1].close_time)
    /\ StopBreached(trade, Examined[2], trade.take_profit_1)

\* C29: in every trade simulate_trade returns, sl_hit_at is set iff sl_hit,
\* and it names the stop tier in force at the breach: ORIGINAL iff no target
\* was hit before (exit_price = stop_loss), BREAKEVEN iff TP1 but not TP2 was
\* hit (exit_price = entry_price), TP1 iff TP2 was hit (exit_price =
\* take_profit_1).
C29_StopTier ==
    Simulated =>
        /\ trade.sl_hit_at # None <=> trade.sl_hit
        /\ trade.sl_hit_at \in {None, Some("ORIGINAL"), Some("BREAKEVEN"), Some("TP1")}
        /\ trade.sl_hit =>
              /\ trade.sl_hit_at = Some("ORIGINAL") <=> ~trade.tp1_hit
              /\ trade.sl_hit_at = Some("BREAKEVEN") <=> (trade.tp1_hit /\ ~trade.tp2_hit)
              /\ trade.sl_hit_at = Some("TP1") <=> trade.tp2_hit
              /\ trade.sl_hit_at = Some("ORIGINAL")
                    => trade.exit_price = Some(trade.stop_loss)
              /\ trade.sl_hit_at = Some("BREAKEVEN")
                    => trade.exit_price = Some(trade.entry_price)
              /\ trade.sl_hit_at = Some("TP1")
                    => trade.exit_price = Some(trade.take_profit_1)

\* a trade stopped at breakeven on the candle after the one that hit TP1
C29_Witness ==
    /\ Simulated
    /\ Len(Examined) = 2
    /\ trade.sl_hit /\ trade.tp1_hit /\ ~trade.tp2_hit
    /\ trade.sl_hit_at = Some("BREAKEVEN")
    /\ trade.exit_price = Some(trade.entry_price)
    /\ trade.exit_time = Some(Examined[2].close_time)

(***************************************************************************)
(* Properties of the month cache.                                          *)
(***************************************************************************)
\* C30: a month whose fetch fails part-way (an HTTP error, an exception or
\* the request cap after some chunks succeeded) is treated as unavailable:
\* its partial candles are not written to the month cache, so every closed
\* month the call writes holds all of that month's klines and a later run
\* never loads an incomplete closed month as if it were complete.
C30_PartialMonthNotCached ==
    \A m \in written :
        Closed(m) => cache[m] = CacheFile(TRUE, TRUE, MonthKlines(m, now))

(***************************************************************************)
(* Properties of concurrent runs.                                          *)
(***************************************************************************)
\* runs a and b use the same cache file
SameFile(a, b) ==
    tasks[a].symbol = tasks[b].symbol /\ tasks[a].month = tasks[b].month

\* the run has looked at its cache file, found nothing to load, and has not
\* yet returned from the fetch after which it writes the file
InWindow(a) == tasks[a].at \in {"request", "rate_limited"}

\* C22: two runs executing as concurrent tasks never share mutable cache
\* state without synchronization: while one run is between its check of a
\* (symbol, month) cache file and its write of it, no other run reads,
\* fetches for, or writes that same file (no other run on that file takes a
\* step).
C22_CacheFileExclusive ==
    [][\A a, b \in Runs :
          (a # b /\ SameFile(a, b) /\ InWindow(a)) => tasks'[b] = tasks[b]]_vars

(***************************************************************************)
(* Properties of the saved backtest.                                       *)
(***************************************************************************)
\* C21: the trade list and the strategy performance list rebuilt from the
\* row have the length and the order of the lists that were saved, and each
\* rebuilt object equals the saved one field by field.
C21_SaveLoadRoundTrip ==
    pc = "loaded" =>
        /\ Len(loaded.trades) = Len(report.trades)
        /\ \A k \in 1..Len(report.trades) :
              \A f \in DOMAIN report.trades[k] :
                  /\ f \in DOMAIN loaded.trades[k]
                  /\ loaded.trades[k][f] = report.trades[k][f]
        /\ Len(loaded.strategy_performance) = Len(report.strategy_performance)
        /\ \A k \in 1..Len(report.strategy_performance) :
              \A f \in DOMAIN report.strategy_performance[k] :
                  /\ f \in DOMAIN loaded.strategy_performance[k]
                  /\ loaded.strategy_performance[k][f] = report.strategy_performance[k][f]

\* two different trades were saved and loaded, a stopped one with its tier
\* before one that never got an exit
C21_Witness ==
    /\ pc = "loaded"
    /\ Len(loaded.trades) = 2
    /\ loaded.trades[1].sl_hit
    /\ loaded.trades[1].sl_hit_at = Some("TP1")
    /\ loaded.trades[1].exit_time # None
    /\ loaded.trades[2].exit_time = None
    /\ loaded.trades[2].signal_time = 1000
    /\ loaded.strategy_performance[1].total_signals = 2
    /\ loaded.strategy_performance[1].actual_weight = 1817640

(***************************************************************************)
(* Properties of _fetch_range_by_chunks.                                   *)
(***************************************************************************)
\* _fetch_range_by_chunks has returned: the outer loop is at its next month
\* or fetch_data_by_chunks is over
RangeGivenUp == pc \in {"month", "fetched"}

\* C31: _fetch_range_by_chunks ends after a bounded number of requests
\* whatever the server answers: once a request has been answered with 429
\* the range is still given up and the candles collected are returned.
C31_RangeGivenUpAfterRateLimit == (pc = "rate_limited") ~> RangeGivenUp

(***************************************************************************)
(* Properties of _load_strategy_configs.                                   *)
(***************************************************************************)
\* the store gives no usable configuration: the load fails, or no row has a
\* class
Unavailable ==
    \/ strategy_store.raises
    \/ GetActiveStrategyConfigs(strategy_store.rows) = <<>>

\* C32: when the active configurations are unavailable (the store returns
\* none or the load fails) run proceeds with the fallback configurations,
\* one per registered class with weight 1.0 and active; it does not raise.
C32_FallbackWhenUnavailable ==
    (pc # "load_configs" /\ Unavailable) =>
        /\ pc = "configured"
        /\ strategy_configs = GetFallbackStrategyConfigs
        /\ Len(strategy_configs) = Len(STRATEGY_CLASS_MAP)
        /\ \A k \in 1..Len(strategy_configs) :
              strategy_configs[k].performance_weight = 10 /\ strategy_configs[k].is_active

(***************************************************************************)
(* Properties of the scan of Backtester.run: suspension points.            *)
(***************************************************************************)
\* whether iteration i of the scan awaits anything that is not run through
\* at once: the progress report of every PROGRESS_EVERY-th index, when a
\* callback is given.  `await self.generate_signal(...)` runs through: its only
\* await is _load_strategy_configs, taken when strategy_configs is empty,
\* and run has loaded the configurations before the scan.
ScanAwaits(i, callback) == callback # "none" /\ i % PROGRESS_EVERY = 0

\* C33: every step of the walk-forward scan reaches a suspension point, with
\* or without a progress_callback, so that another task can run between
\* two consecutive steps.
C33_SuspendsEveryStep ==
    [][(pc = "scan" /\ pc' # "raised") => ScanAwaits(run.i, progress_callback)]_vars

(***************************************************************************)
(* Properties of the tally of aggregate().                                 *)
(***************************************************************************)
\* indices of the LONG and SHORT results below min_vote_confidence
Filtered ==
    {i \in 1..Len(results) :
        /\ results[i].direction \in {"LONG", "SHORT"}
        /\ results[i].confidence < cfg.min_vote_confidence}

\* the sums acc with a vote of confidence c and weight w added
WithVote(acc, c, w) ==
    [confidence |-> acc.confidence + c * w, weight |-> acc.weight + w]

\* the weighted confidence sum and the weight sum of the first i results
\* that count as a vote for direction d
RECURSIVE QualifyingSums(_, _)
QualifyingSums(d, i) ==
    IF i = 0 THEN [confidence |-> 0, weight |-> 0]
    ELSE WithVote(QualifyingSums(d, i - 1), results[i].confidence,
                  IF i \in Qualifying(d) THEN ResultWeight(results[i], cfg, data)
                  ELSE 0)

\* the weight sum and the weighted confidence of the signal are those of sums
SumsTallied(sums, weight_sum, weighted_confidence) ==
    /\ weight_sum = sums.weight
    /\ weighted_confidence = AvgConfidence(sums.confidence, sums.weight)

\* C34: every result is tallied in exactly one of long_votes, short_votes,
\* neutral_votes, filtered_votes, which sum to len(results); a LONG or
\* SHORT result below min_vote_confidence is counted in filtered_votes only
\* and adds nothing to the votes, the confidence sums and the weight sums.
C34_TallyPartition ==
    Returned =>
        /\ signal.long_votes + signal.short_votes + signal.neutral_votes
              + signal.filtered_votes = Len(results)
        /\ signal.long_votes = NLong
        /\ signal.short_votes = NShort
        /\ signal.filtered_votes = Cardinality(Filtered)
        /\ SumsTallied(QualifyingSums("LONG", Len(results)),
                       signal.long_weight_sum, signal.weighted_long_confidence)
        /\ SumsTallied(QualifyingSums("SHORT", Len(results)),
                       signal.short_weight_sum, signal.weighted_short_confidence)

\* a vote of each kind: a LONG vote that counts, a filtered LONG result, a
\* filtered SHORT result and a neutral one
C34_Witness ==
    /\ Returned
    /\ signal.long_votes = 1
    /\ signal.neutral_votes = 1
    /\ signal.filtered_votes = 2
    /\ \E i, j \in Filtered : results[i].direction = "LONG" /\ results[j].direction = "SHORT"
    /\ signal.long_weight_sum > 0
    /\ signal.short_weight_sum = 0

(***************************************************************************)
(* Properties of the regime multiplier on a short window.                  *)
(***************************************************************************)
\* the weight sum of the first i results that vote for d, had the regime
\* multiplier of each been 1.0
RECURSIVE UnitRegimeWeightSum(_, _)
UnitRegimeWeightSum(d, i) ==
    IF i = 0 THEN 0
    ELSE UnitRegimeWeightSum(d, i - 1)
         + (IF i \in Qualifying(d)
            THEN ActualWeight(results[i].weight,
                              DictGet(cfg.strategy_weights, results[i].name, 10),
                              100,
                              DictGet(cfg.stability_weights, results[i].name, 10),
                              DictGet(cfg.correlation_penalties, results[i].name, 10))
            ELSE 0)

\* C35: on a window shorter than the 14-candle lookback the regime
\* multiplier applied to every strategy's weight is 1.0, for trend-type,
\* range-type and untagged strategies alike.
C35_UnitRegimeOnShortWindow ==
    (Returned /\ data.len < ATR_WINDOW) =>
        /\ \A i \in 1..Len(results) :
              GetRegimeMultiplier(GetAdx(data), results[i].name) = 100
        /\ signal.long_weight_sum = UnitRegimeWeightSum("LONG", Len(results))
        /\ signal.short_weight_sum = UnitRegimeWeightSum("SHORT", Len(results))

(***************************************************************************)
(* Properties of the stop and the targets on a short window.               *)
(***************************************************************************)
\* stop_loss and take_profit_1..3 of the returned signal are None
LevelsUnset ==
    /\ signal.stop_loss = None
    /\ signal.take_profit_1 = None
    /\ signal.take_profit_2 = None
    /\ signal.take_profit_3 = None

\* C36: a non-NEUTRAL signal on a window shorter than the 14-candle
\* lookback (volatility 0) has its stop and its three targets left unset,
\* not set to the entry price; a NEUTRAL signal always has them unset.
C36_LevelsUnsetOnShortWindow ==
    Returned =>
        /\ (signal.direction # "NEUTRAL" /\ data.len < ATR_WINDOW) => LevelsUnset
        /\ signal.direction = "NEUTRAL" => LevelsUnset

(***************************************************************************)
(* Properties of the walk-forward: no look-ahead.                          *)
(***************************************************************************)
\* the execution candles are in strictly increasing time order
ExecutionInOrder ==
    \A k \in 1..(Len(self_execution_candles) - 1) :
        self_execution_candles[k].open_time < self_execution_candles[k + 1].open_time

\* the positions of the execution candles that open after signal_time
LaterPositions(signal_time) ==
    {k \in 1..Len(self_execution_candles) :
        self_execution_candles[k].open_time > signal_time}

\* the candles a trade opened at signal_time may be simulated on: those that
\* open strictly after it, the earliest 24 signal candles' worth of them
Permitted(signal_time) ==
    LET later == LaterPositions(signal_time)
        first == IF later = {} THEN 1 ELSE CHOOSE k \in later : \A j \in later : k <= j
        last  == IF later = {} THEN 0
                 ELSE Min(Len(self_execution_candles),
                          first + TRADE_HORIZON * Ratio(signal_timeframe) - 1)
    IN  SubSeq(self_execution_candles, first, last)

\* the signal a recorded trade was opened for
SignalOfTrade(t) ==
    [direction |-> t.direction, confidence |-> t.confidence,
     entry_price |-> t.entry_price, stop_loss |-> <<t.stop_loss>>,
     take_profit_1 |-> <<t.take_profit_1>>, take_profit_2 |-> <<t.take_profit_2>>,
     take_profit_3 |-> <<t.take_profit_3>>]

\* trade t is opened at the close of an already scanned signal candle, at
\* that candle's close, and is what the simulation gives on the candles of
\* `permitted` alone, which open after the signal and are at most 24 signal
\* candles' worth
SimulatedOn(t, permitted) ==
    /\ \E i \in START_INDEX..(run.i - 1) :
          /\ self_signal_candles[i + 1].close_time = t.signal_time
          /\ self_signal_candles[i + 1].close = t.entry_price
    /\ \A k \in 1..Len(permitted) : permitted[k].open_time > t.signal_time
    /\ Len(permitted) <= TRADE_HORIZON * Ratio(signal_timeframe)
    /\ t = SimulateTrade(SignalOfTrade(t), t.signal_time, permitted, Len(permitted))
    /\ t.exit_time # None =>
          \E k \in 1..Len(permitted) : permitted[k].close_time = t.exit_time[1]

OpenedWithoutLookAhead(t) == SimulatedOn(t, Permitted(t.signal_time))

StatisticsDone == pc = "returned" \/ summary.strategy_performance # <<>>

\* the result classes trade t falls in
ResultClasses(t) ==
    {c \in {"wins", "losses", "partial_wins", "timeouts"} :
        CASE c = "wins" -> t.tp1_hit /\ ~t.sl_hit
          [] c = "losses" -> t.sl_hit /\ ~t.tp1_hit
          [] c = "partial_wins" -> t.tp1_hit /\ t.sl_hit
          [] c = "timeouts" -> t.result = "TIMEOUT"}

\* the number of the trades in class c
InClass(trades, c) == Cardinality({k \in 1..Len(trades) : c \in ResultClasses(trades[k])})

\* the four result counters are the sizes of the four classes, which
\* partition the trades
CountersPartition(counters, trades) ==
    /\ \A k \in 1..Len(trades) : Cardinality(ResultClasses(trades[k])) = 1
    /\ \A c \in {"wins", "losses", "partial_wins", "timeouts"} :
          counters[c] = InClass(trades, c)
    /\ counters.wins + counters.losses + counters.partial_wins + counters.timeouts
          = counters.total_signals
    /\ counters.total_signals = Len(trades)

\* a trade that ran out of candles after TP1 without reaching its stop
ExhaustedPartial(t) == t.result = "PARTIAL" /\ ~t.sl_hit

\* C38: after the statistics pass every recorded trade is counted in exactly
\* one of wins, losses, partial_wins and timeouts, so the four add up to
\* total_signals = long_signals + short_signals = len(trades), and
\* tp3_hits <= tp2_hits <= tp1_hits; a PARTIAL reached by candle exhaustion
\* is counted as a win.  The same partition holds for each strategy's
\* counters.
C38_StatisticsPartition ==
    StatisticsDone =>
        /\ CountersPartition(summary, summary.trades)
        /\ summary.total_signals = summary.long_signals + summary.short_signals
        /\ summary.tp3_hits <= summary.tp2_hits
        /\ summary.tp2_hits <= summary.tp1_hits
        /\ summary.tp1_hits = summary.wins + summary.partial_wins
        /\ \A k \in 1..Len(summary.trades) :
              ExhaustedPartial(summary.trades[k])
                  => ResultClasses(summary.trades[k]) = {"wins"}
        /\ \A p \in 1..Len(summary.strategy_performance) :
              CountersPartition(summary.strategy_performance[p].stats,
                                run.strategy_trades[summary.strategy_performance[p].code])

\* the statistics are those of a run whose ensemble made a trade that ran
\* out of candles after TP1, counted as a win, while a strategy made a trade
\* stopped at break-even after TP1, counted as a partial win
C38_Witness ==
    /\ StatisticsDone
    /\ summary.wins > 0
    /\ summary.tp3_hits < summary.tp1_hits
    /\ \E k \in 1..Len(summary.trades) : ExhaustedPartial(summary.trades[k])
    /\ \E p \in 1..Len(summary.strategy_performance) :
          summary.strategy_performance[p].stats.partial_wins > 0

(***************************************************************************)
(* Properties of the weight suggested for a strategy without a losing      *)
(* trade.                                                                  *)
(***************************************************************************)
\* the trades the statistics were taken of
StatsTrades == run.strategy_trades[StatsCode]

\* at least one trade, none with a negative profit
NoLosingTrade ==
    /\ StatsTrades # <<>>
    /\ \A k \in 1..Len(StatsTrades) : StatsTrades[k].total_profit_percent >= 0

\* C39: for a strategy with at least one trade and no losing trade the
\* profit factor is reported as 0, the raw score takes its floor 0.3, and the
\* suggested weight is at most 1.0, exactly 0.3 from 30 trades on, however
\* many winning trades there are.
C39_NoLossWeightAtFloor ==
    (pc # "strategy_stats" /\ NoLosingTrade) =>
        /\ stats.total_signals = Len(StatsTrades)
        /\ stats.profit_factor = 0
        /\ ClampedScore = 300000
        /\ WeightReturned =>
              /\ suggested_weight <= 10000
              /\ suggested_weight
                    = RoundHalfEven(30 * 10000 - 7000 * Min(30, Len(StatsTrades)), 30)
              /\ Len(StatsTrades) >= 30 => suggested_weight = 3000

\* the weight is returned for 30 or more trades that all reached TP3
C39_Witness ==
    /\ WeightReturned
    /\ NoLosingTrade
    /\ Len(StatsTrades) >= 30
    /\ \A k \in 1..Len(StatsTrades) : StatsTrades[k].result = "TP3"
    /\ stats.win_rate = 100
    /\ suggested_weight = 3000

====
